---- MODULE Spec2Model ----
(***************************************************************************)
(* A model of the nessie NES emulator core: the PPU register file and dot  *)
(* clock (src/src/ppu.rs), the cartridge (src/src/cartridge.rs), the NES   *)
(* bus (src/src/nes.rs, src/src/bus.rs) and the CPU's fetch/execute loop   *)
(* (src/src/cpu.rs).                                                       *)
(*                                                                         *)
(* Bytes and addresses are naturals; every u8 / u16 operation keeps its    *)
(* width explicitly.  The zero-initialised arrays of the program are kept  *)
(* sparse: a function from the indices that hold a non-zero byte to that   *)
(* byte.                                                                   *)
(***************************************************************************)
EXTENDS Naturals, Integers, Sequences, FiniteSets, TLC

VARIABLES
    debug,      \* build profile: TRUE = debug_assertions and overflow checks on
    image,      \* the iNES buffer the cartridge was built from
    ram,        \* NesBus.cpu_vram
    cart,       \* NesBus.cartridge
    ppu,        \* NesBus.ppu
    cpu,        \* the CPU registers
    panicked,   \* the process has panicked (no operation follows)
    last,       \* the last operation performed, its arguments and its result
    steps,      \* number of operations performed so far
    lastw,      \* observer: address -> byte of the last completed bus write there
    shadow,     \* observer: address -> byte of the last completed bus write to its cell
    nmi_line    \* observer: the NMI query as sampled at the last instruction boundary

vars == <<debug, image, ram, cart, ppu, cpu, panicked, last, steps, lastw, shadow, nmi_line>>

----------------------------------------------------------------------------
(* Bounds of the model.                                                    *)

\* operations per behaviour of the PPU register specification
MaxOps == 4
\* frames the dot clock may complete (frame is a u64 in the program)
MaxFrame == 1
\* operations per behaviour of the bus specification
MaxBusOps == 3
\* instructions the CPU executes per behaviour of the console specification
MaxCpuSteps == 3
\* dots the PPU is clocked per behaviour of the console specification
MaxDots == 12
\* register accesses made on the PPU address and data ports
MaxVramOps == 6
MaxRunSteps == 1000
MaxTraceOps == 3

----------------------------------------------------------------------------
(* Fixed-width arithmetic.                                                 *)

Pow2(k) == 2 ^ k

\* bit k of n
Bit(n, k) == (n \div Pow2(k)) % 2

\* n with bit k cleared / set
ClearBit(n, k) == IF Bit(n, k) = 1 THEN n - Pow2(k) ELSE n
SetBit(n, k) == IF Bit(n, k) = 1 THEN n ELSE n + Pow2(k)

\* n & (2^k - 1)
LowBits(n, k) == n % Pow2(k)

\* (n as u8), (n as u16)
U8(n) == n % 256
U16(n) == n % 65536

----------------------------------------------------------------------------
(* Zero-initialised byte arrays, kept sparse.                              *)

ArrEmpty == <<>>

ArrGet(arr, i) == IF i \in DOMAIN arr THEN arr[i] ELSE 0

ArrSet(arr, i, v) ==
    IF v = 0
    THEN [x \in (DOMAIN arr) \ {i} |-> arr[x]]
    ELSE [x \in (DOMAIN arr) \cup {i} |-> IF x = i THEN v ELSE arr[x]]

----------------------------------------------------------------------------
(* PPU (src/src/ppu.rs).                                                   *)

\* PPU::new
PPU_new ==
    [ ctrl         |-> 0,
      mask         |-> 0,
      status       |-> \h80,
      oam_addr     |-> 0,
      scroll_x     |-> 0,
      scroll_y     |-> 0,
      addr_hi      |-> 0,
      addr_lo      |-> 0,
      data_buffer  |-> 0,
      write_toggle |-> FALSE,
      vram_addr    |-> 0,
      cycle        |-> 0,
      scanline     |-> 241,
      frame        |-> 0,
      vram         |-> ArrEmpty,
      palette_ram  |-> ArrEmpty,
      oam          |-> ArrEmpty ]

\* the step of the VRAM address: 32 when PpuCtrl::VRAM_INCREMENT is set, else 1
VramStep(p) == IF Bit(p.ctrl, 2) = 1 THEN 32 ELSE 1

\* PPU::read_vram
read_vram(p, address) ==
    LET a == LowBits(address, 14) IN
    IF a < \h2000 THEN 0
    ELSE IF a < \h3000 THEN ArrGet(p.vram, LowBits(a - \h2000, 11))
    ELSE IF a < \h3F00 THEN ArrGet(p.vram, LowBits(a - \h3000, 11))
    ELSE ArrGet(p.palette_ram, LowBits(a - \h3F00, 5))

\* a write_vram that decodes only the first image of the nametables: no
\* mirror at $3000, no palette, no reduction of the address
write_vram_flat(p, address, value) ==
    IF address >= \h2000 /\ address < \h3000
    THEN [p EXCEPT !.vram = ArrSet(@, LowBits(address - \h2000, 11), value)]
    ELSE p

\* PPU::write_vram
write_vram(p, address, value) ==
    LET a == LowBits(address, 14) IN
    IF a < \h2000 THEN p
    ELSE IF a < \h3000
         THEN [p EXCEPT !.vram = ArrSet(@, LowBits(a - \h2000, 11), value)]
    ELSE IF a < \h3F00
         THEN [p EXCEPT !.vram = ArrSet(@, LowBits(a - \h3000, 11), value)]
    ELSE [p EXCEPT !.palette_ram = ArrSet(@, LowBits(a - \h3F00, 5), value)]

\* `self.vram_addr += step` on a u16: panics on overflow when overflow checks
\* are on, wraps otherwise.  Yields the new PPU and whether it panicked.
vram_addr_advance(p, dbg) ==
    LET sum == p.vram_addr + VramStep(p) IN
    IF sum > 65535 /\ dbg
    THEN [ppu |-> p, panic |-> TRUE]
    ELSE [ppu |-> [p EXCEPT !.vram_addr = U16(sum)], panic |-> FALSE]

\* The outcome of a register access: the PPU afterwards, the byte returned
\* (0 for a write) and whether the access panicked.
Outcome(p, r, f) == [ppu |-> p, ret |-> r, panic |-> f]

\* the $2002 arm of PPU::cpu_read as a bug would have it: the flag is cleared
\* before the status byte is taken
cpu_read_status_cleared_first(p) ==
    Outcome([p EXCEPT !.status = ClearBit(@, 7), !.write_toggle = FALSE],
            ClearBit(p.status, 7), FALSE)

\* the $2002 arm of PPU::cpu_read
cpu_read_status(p) ==
    Outcome([p EXCEPT !.status = ClearBit(@, 7), !.write_toggle = FALSE],
            p.status, FALSE)

\* the $2007 arm of PPU::cpu_read
cpu_read_data(p, dbg) ==
    LET data == p.data_buffer
        p1 == [p EXCEPT !.data_buffer = read_vram(p, p.vram_addr)]
    IN  IF p1.vram_addr >= \h3F00
        THEN Outcome(p1, p1.data_buffer, FALSE)
        ELSE LET adv == vram_addr_advance(p1, dbg)
             IN  Outcome(adv.ppu, data, adv.panic)

\* PPU::cpu_read as a bug would have it: a read of PPUSCROLL resets the
\* write toggle, as a read of PPUSTATUS does
cpu_read_scroll_resets(p, address, dbg) ==
    CASE address = \h2002 -> cpu_read_status(p)
      [] address = \h2004 -> Outcome(p, ArrGet(p.oam, p.oam_addr), FALSE)
      [] address = \h2005 -> Outcome([p EXCEPT !.write_toggle = FALSE], 0, FALSE)
      [] address = \h2007 -> cpu_read_data(p, dbg)
      [] OTHER -> Outcome(p, 0, FALSE)

\* PPU::cpu_read
cpu_read(p, address, dbg) ==
    CASE address = \h2002 -> cpu_read_status(p)
      [] address = \h2004 -> Outcome(p, ArrGet(p.oam, p.oam_addr), FALSE)
      [] address = \h2007 -> cpu_read_data(p, dbg)
      [] OTHER -> Outcome(p, 0, FALSE)

\* the $2000 arm of PPU::cpu_write
cpu_write_ctrl(p, value) == [p EXCEPT !.ctrl = value]

\* the $2005 arm of PPU::cpu_write as a bug would have it: PPUSCROLL does not
\* move the latch it shares with PPUADDR
cpu_write_scroll_own_latch(p, value) ==
    [p EXCEPT !.scroll_x = IF p.write_toggle THEN @ ELSE value,
              !.scroll_y = IF p.write_toggle THEN value ELSE @]

\* the $2005 arm of PPU::cpu_write
cpu_write_scroll(p, value) ==
    [p EXCEPT !.scroll_x = IF p.write_toggle THEN @ ELSE value,
              !.scroll_y = IF p.write_toggle THEN value ELSE @,
              !.write_toggle = ~p.write_toggle]

\* the $2006 arm of PPU::cpu_write as a bug would have it: the first write is
\* taken as the low byte and the second as the high byte
cpu_write_addr_low_first(p, value) ==
    IF ~p.write_toggle
    THEN [p EXCEPT !.addr_lo = value, !.write_toggle = TRUE]
    ELSE [p EXCEPT !.addr_hi = value,
                   !.vram_addr = value * 256 + p.addr_lo,
                   !.write_toggle = FALSE]

\* the $2006 arm of PPU::cpu_write
cpu_write_addr(p, value) ==
    IF ~p.write_toggle
    THEN [p EXCEPT !.addr_hi = value, !.write_toggle = TRUE]
    ELSE [p EXCEPT !.addr_lo = value,
                   !.vram_addr = p.addr_hi * 256 + value,
                   !.write_toggle = FALSE]

\* the $2004 arm of PPU::cpu_write as a bug would have it: the cursor stops
\* at the last OAM cell instead of wrapping
cpu_write_oam_saturating(p, value) ==
    [p EXCEPT !.oam = ArrSet(@, p.oam_addr, value),
              !.oam_addr = IF p.oam_addr = 255 THEN 255 ELSE p.oam_addr + 1]

\* the $2004 arm of PPU::cpu_write
cpu_write_oam(p, value) ==
    [p EXCEPT !.oam = ArrSet(@, p.oam_addr, value),
              !.oam_addr = U8(p.oam_addr + 1)]

\* PPU::cpu_write
cpu_write(p, address, value, dbg) ==
    CASE address = \h2000 -> Outcome(cpu_write_ctrl(p, value), 0, FALSE)
      [] address = \h2001 -> Outcome([p EXCEPT !.mask = value], 0, FALSE)
      [] address = \h2003 -> Outcome([p EXCEPT !.oam_addr = value], 0, FALSE)
      [] address = \h2004 -> Outcome(cpu_write_oam(p, value), 0, FALSE)
      [] address = \h2005 -> Outcome(cpu_write_scroll(p, value), 0, FALSE)
      [] address = \h2006 -> Outcome(cpu_write_addr(p, value), 0, FALSE)
      [] address = \h2007 ->
            LET adv == vram_addr_advance(write_vram(p, p.vram_addr, value), dbg)
            IN  Outcome(adv.ppu, 0, adv.panic)
      [] OTHER -> Outcome(p, 0, FALSE)

\* PPU::clock as a bug would have it: VBlank is cleared one scanline early
clock_clears_early(p) ==
    IF p.cycle + 1 < 341
    THEN [p EXCEPT !.cycle = p.cycle + 1]
    ELSE LET wrap == p.scanline + 1 >= 262
             sl == IF wrap THEN 0 ELSE p.scanline + 1
             st1 == IF sl = 241 THEN SetBit(p.status, 7) ELSE p.status
             st2 == IF sl = 260 THEN ClearBit(st1, 7) ELSE st1
         IN  [p EXCEPT !.cycle = 0,
                       !.scanline = sl,
                       !.frame = IF wrap THEN @ + 1 ELSE @,
                       !.status = st2]

\* PPU::clock as a bug would have it: VBlank follows the scanline on every
\* dot instead of being set once, on the transition
clock_vblank_level(p) ==
    IF p.cycle + 1 < 341
    THEN [p EXCEPT !.cycle = p.cycle + 1,
                   !.status = IF p.scanline >= 241 /\ p.scanline < 261
                              THEN SetBit(@, 7) ELSE @]
    ELSE LET wrap == p.scanline + 1 >= 262
             sl == IF wrap THEN 0 ELSE p.scanline + 1
             st1 == IF sl = 241 THEN SetBit(p.status, 7) ELSE p.status
             st2 == IF sl = 261 THEN ClearBit(st1, 7) ELSE st1
         IN  [p EXCEPT !.cycle = 0,
                       !.scanline = sl,
                       !.frame = IF wrap THEN @ + 1 ELSE @,
                       !.status = st2]

\* PPU::clock as a bug would have it: VBlank is set one scanline late
clock_sets_late(p) ==
    IF p.cycle + 1 < 341
    THEN [p EXCEPT !.cycle = p.cycle + 1]
    ELSE LET wrap == p.scanline + 1 >= 262
             sl == IF wrap THEN 0 ELSE p.scanline + 1
             st1 == IF sl = 242 THEN SetBit(p.status, 7) ELSE p.status
             st2 == IF sl = 261 THEN ClearBit(st1, 7) ELSE st1
         IN  [p EXCEPT !.cycle = 0,
                       !.scanline = sl,
                       !.frame = IF wrap THEN @ + 1 ELSE @,
                       !.status = st2]

\* PPU::clock as a bug would have it: the dot counter wraps one dot late
clock_wraps_late(p) ==
    IF p.cycle + 1 < 342
    THEN [p EXCEPT !.cycle = p.cycle + 1]
    ELSE LET wrap == p.scanline + 1 >= 262
             sl == IF wrap THEN 0 ELSE p.scanline + 1
             st1 == IF sl = 241 THEN SetBit(p.status, 7) ELSE p.status
             st2 == IF sl = 261 THEN ClearBit(st1, 7) ELSE st1
         IN  [p EXCEPT !.cycle = 0,
                       !.scanline = sl,
                       !.frame = IF wrap THEN @ + 1 ELSE @,
                       !.status = st2]

\* PPU::clock
clock(p) ==
    IF p.cycle + 1 < 341
    THEN [p EXCEPT !.cycle = p.cycle + 1]
    ELSE LET wrap == p.scanline + 1 >= 262
             sl == IF wrap THEN 0 ELSE p.scanline + 1
             st1 == IF sl = 241 THEN SetBit(p.status, 7) ELSE p.status
             st2 == IF sl = 261 THEN ClearBit(st1, 7) ELSE st1
         IN  [p EXCEPT !.cycle = 0,
                       !.scanline = sl,
                       !.frame = IF wrap THEN @ + 1 ELSE @,
                       !.status = st2]

\* PPU::nmi_occurred as a bug would have it: the enable bit is not consulted
nmi_occurred_ungated(p) == Bit(p.status, 7) = 1

\* PPU::nmi_occurred
nmi_occurred(p) == Bit(p.ctrl, 7) = 1 /\ Bit(p.status, 7) = 1

----------------------------------------------------------------------------
(* Cartridge (src/src/cartridge.rs).                                       *)

\* An iNES byte buffer: its length and its non-zero bytes.
Buffer(len, bytes) == [len |-> len, bytes |-> bytes]

\* The buffer of an image with `banks` 16 KiB PRG banks (header byte 4), flag
\* byte 6 = flags, and PRG bytes prg (offset -> byte).
PrgStart(flags) == 16 + (IF Bit(flags, 2) = 1 THEN 512 ELSE 0)
Image(banks, flags, prg) ==
    LET start == PrgStart(flags)
        hdr == ArrSet(ArrSet(ArrEmpty, 4, banks), 6, flags)
    IN  Buffer(start + banks * 16384,
               [i \in (DOMAIN hdr) \cup {start + j : j \in DOMAIN prg} |->
                   IF i \in DOMAIN hdr THEN hdr[i] ELSE prg[i - start]])

\* Cartridge::from_rom: the cartridge, or a panic when an index or the PRG
\* slice falls outside the buffer.
from_rom(buffer) ==
    IF buffer.len <= 6
    THEN [panic |-> TRUE, cart |-> [cartridge_ram |-> ArrEmpty, prg_len |-> 0, prg_rom |-> ArrEmpty]]
    ELSE
    LET skip_trainer == Bit(ArrGet(buffer.bytes, 6), 2) # 0
        prg_rom_start == 16 + (IF skip_trainer THEN 512 ELSE 0)
        prg_rom_end == prg_rom_start + ArrGet(buffer.bytes, 4) * 16384
        keep == {i \in DOMAIN buffer.bytes : i >= prg_rom_start /\ i < prg_rom_end}
    IN  [panic |-> prg_rom_end > buffer.len,
         cart  |-> [cartridge_ram |-> ArrEmpty,
                    prg_len |-> prg_rom_end - prg_rom_start,
                    prg_rom |-> [j \in {i - prg_rom_start : i \in keep} |->
                                    buffer.bytes[j + prg_rom_start]]]]

\* the PRG-ROM index of Cartridge::read as a bug would have it: a 16 KiB ROM
\* is not mirrored into the upper half
prg_index_unmirrored(c, address) == address - 32768

\* the PRG-ROM index Cartridge::read computes for an address in $8000-$FFFF
prg_index(c, address) ==
    LET a == address - 32768 IN
    IF c.prg_len = 16384 /\ a >= 16384 THEN a % 16384 ELSE a

\* <Cartridge as Bus>::read: the byte, or a panic
Cartridge_read(c, address) ==
    IF address >= \h6000 /\ address <= \h7FFF
    THEN [ret |-> ArrGet(c.cartridge_ram, address - \h6000), panic |-> FALSE]
    ELSE IF address >= \h8000 /\ address <= \hFFFF
    THEN LET i == prg_index(c, address) IN
         IF i < c.prg_len
         THEN [ret |-> ArrGet(c.prg_rom, i), panic |-> FALSE]
         ELSE [ret |-> 0, panic |-> TRUE]
    ELSE [ret |-> 0, panic |-> TRUE]

\* <Cartridge as Bus>::write as a bug would have it: a write to PRG-ROM is
\* stored
Cartridge_write_stores_rom(c, address, value) ==
    IF address >= \h6000 /\ address <= \h7FFF
    THEN [cart |-> [c EXCEPT !.cartridge_ram = ArrSet(@, address - \h6000, value)],
          panic |-> FALSE]
    ELSE IF address >= \h8000 /\ address <= \hFFFF
    THEN [cart |-> [c EXCEPT !.prg_rom = ArrSet(@, prg_index(c, address), value)],
          panic |-> FALSE]
    ELSE [cart |-> c, panic |-> TRUE]

\* <Cartridge as Bus>::write: the cartridge afterwards, or a panic
Cartridge_write(c, address, value) ==
    IF address >= \h6000 /\ address <= \h7FFF
    THEN [cart |-> [c EXCEPT !.cartridge_ram = ArrSet(@, address - \h6000, value)],
          panic |-> FALSE]
    ELSE [cart |-> c, panic |-> TRUE]

----------------------------------------------------------------------------
(* NES bus (src/src/nes.rs) and the Bus trait (src/src/bus.rs).            *)

\* The bus: CPU RAM, the cartridge and the PPU.
Bus(r, c, p) == [cpu_vram |-> r, cartridge |-> c, ppu |-> p]

\* NesBus::new
NesBus_new(cartridge) == Bus(ArrEmpty, cartridge, PPU_new)

\* The outcome of a bus access: the bus afterwards, the value returned (0 for
\* a write) and whether the access panicked.
BusOutcome(b, r, f) == [bus |-> b, ret |-> r, panic |-> f]

\* the RAM mirror of NesBus::read / write as a bug would have it: one address
\* bit too many is kept
ram_mirror_wide(address) == LowBits(address, 12)

\* `address & 0b00000111_11111111`
ram_mirror(address) == LowBits(address, 11)

\* the PPU register mirror as a bug would have it: sixteen registers
ppu_mirror_wide(address) == \h2000 + LowBits(address, 4)

\* `0x2000 + (address & 0x0007)`
ppu_mirror(address) == \h2000 + LowBits(address, 3)

\* the unmapped arm of NesBus::write as a bug would have it: the byte lands
\* in CPU RAM
unmapped_write_leaks(b, address, value) ==
    BusOutcome([b EXCEPT !.cpu_vram = ArrSet(@, ram_mirror(address), value)], 0, FALSE)

\* the `_` arm of NesBus::write: a warning is logged, nothing is stored
unmapped_write(b, address, value) == BusOutcome(b, 0, FALSE)

\* <NesBus as Bus>::read.  The PPU arm calls PPU::cpu_read through a pointer
\* cast from a shared reference; `store` says whether the stores made through
\* that pointer take effect.
NesBus_read(b, address, dbg, store) ==
    IF address <= \h1FFF
    THEN BusOutcome(b, ArrGet(b.cpu_vram, ram_mirror(address)), FALSE)
    ELSE IF address <= \h3FFF
    THEN LET res == cpu_read(b.ppu, ppu_mirror(address), dbg) IN
         BusOutcome(IF store THEN [b EXCEPT !.ppu = res.ppu] ELSE b,
                    res.ret, res.panic)
    ELSE IF address >= \h6000
    THEN LET res == Cartridge_read(b.cartridge, address) IN
         BusOutcome(b, res.ret, res.panic)
    ELSE BusOutcome(b, 0, FALSE)

\* <NesBus as Bus>::write
NesBus_write(b, address, value, dbg) ==
    IF address <= \h1FFF
    THEN BusOutcome([b EXCEPT !.cpu_vram = ArrSet(@, ram_mirror(address), value)],
                    0, FALSE)
    ELSE IF address <= \h3FFF
    THEN LET res == cpu_write(b.ppu, ppu_mirror(address), value, dbg) IN
         BusOutcome([b EXCEPT !.ppu = res.ppu], 0, res.panic)
    ELSE IF address >= \h6000
    THEN LET res == Cartridge_write(b.cartridge, address, value) IN
         BusOutcome([b EXCEPT !.cartridge = res.cart], 0, res.panic)
    ELSE unmapped_write(b, address, value)

\* Bus::read16 on the NES bus: `address + 1` is a u16 addition, which panics
\* on overflow when overflow checks are on and wraps otherwise.
NesBus_read16(b, address, dbg, store1, store2) ==
    LET lo == NesBus_read(b, address, dbg, store1) IN
    IF lo.panic THEN BusOutcome(lo.bus, 0, TRUE)
    ELSE IF address + 1 > 65535 /\ dbg THEN BusOutcome(lo.bus, 0, TRUE)
    ELSE LET hi == NesBus_read(lo.bus, U16(address + 1), dbg, store2) IN
         BusOutcome(hi.bus, hi.ret * 256 + lo.ret, hi.panic)

----------------------------------------------------------------------------
(* CPU (src/src/cpu.rs).  A machine is the CPU registers, the bus behind   *)
(* them and whether execution has panicked.                                *)

Machine(c, b, f) == [cpu |-> c, bus |-> b, panic |-> f]

\* enum Address
Implied == [kind |-> "Implied", addr |-> 0]
Absolute(a) == [kind |-> "Absolute", addr |-> a]
Relative(d) == [kind |-> "Relative", addr |-> d]

\* u16 addition as the build does it: the sum and whether it panicked
AddU16(a, b, dbg) == [val |-> U16(a + b), panic |-> dbg /\ a + b > 65535]

\* The entries of OPCODE_TABLE the programs of this model execute.
OPCODE_TABLE ==
    (\hA9 :> [name |-> "LDA", addressing |-> "Immediate", len |-> 2, cycles |-> 2]) @@
    (\h8D :> [name |-> "STA", addressing |-> "Absolute",  len |-> 3, cycles |-> 4]) @@
    (\h4C :> [name |-> "JMP", addressing |-> "Absolute",  len |-> 3, cycles |-> 3]) @@
    (\hEA :> [name |-> "NOP", addressing |-> "Implied",   len |-> 1, cycles |-> 2]) @@
    (\h38 :> [name |-> "SEC", addressing |-> "Implied",   len |-> 1, cycles |-> 2]) @@
    (\h2C :> [name |-> "BIT", addressing |-> "Absolute",  len |-> 3, cycles |-> 4]) @@
    (\h6C :> [name |-> "JMP", addressing |-> "Indirect",  len |-> 3, cycles |-> 5]) @@
    (\h10 :> [name |-> "BPL", addressing |-> "Relative",  len |-> 2, cycles |-> 2]) @@
    (\h30 :> [name |-> "BMI", addressing |-> "Relative",  len |-> 2, cycles |-> 2]) @@
    (\h50 :> [name |-> "BVC", addressing |-> "Relative",  len |-> 2, cycles |-> 2]) @@
    (\h70 :> [name |-> "BVS", addressing |-> "Relative",  len |-> 2, cycles |-> 2]) @@
    (\h90 :> [name |-> "BCC", addressing |-> "Relative",  len |-> 2, cycles |-> 2]) @@
    (\hB0 :> [name |-> "BCS", addressing |-> "Relative",  len |-> 2, cycles |-> 2]) @@
    (\hD0 :> [name |-> "BNE", addressing |-> "Relative",  len |-> 2, cycles |-> 2]) @@
    (\hF0 :> [name |-> "BEQ", addressing |-> "Relative",  len |-> 2, cycles |-> 2]) @@
    (\h00 :> [name |-> "BRK", addressing |-> "Implied",   len |-> 1, cycles |-> 7]) @@
    (\hA5 :> [name |-> "LDA", addressing |-> "ZeroPage",  len |-> 2, cycles |-> 3]) @@
    (\hB5 :> [name |-> "LDA", addressing |-> "ZeroPageX", len |-> 2, cycles |-> 4]) @@
    (\hA1 :> [name |-> "LDA", addressing |-> "IndirectX", len |-> 2, cycles |-> 6]) @@
    (\hB1 :> [name |-> "LDA", addressing |-> "IndirectY", len |-> 2, cycles |-> 5]) @@
    (\h85 :> [name |-> "STA", addressing |-> "ZeroPage",  len |-> 2, cycles |-> 3]) @@
    (\hA2 :> [name |-> "LDX", addressing |-> "Immediate", len |-> 2, cycles |-> 2]) @@
    (\hA6 :> [name |-> "LDX", addressing |-> "ZeroPage",  len |-> 2, cycles |-> 3]) @@
    (\hB6 :> [name |-> "LDX", addressing |-> "ZeroPageY", len |-> 2, cycles |-> 4]) @@
    (\h86 :> [name |-> "STX", addressing |-> "ZeroPage",  len |-> 2, cycles |-> 3]) @@
    (\hA0 :> [name |-> "LDY", addressing |-> "Immediate", len |-> 2, cycles |-> 2]) @@
    (\hA4 :> [name |-> "LDY", addressing |-> "ZeroPage",  len |-> 2, cycles |-> 3]) @@
    (\h84 :> [name |-> "STY", addressing |-> "ZeroPage",  len |-> 2, cycles |-> 3]) @@
    (\h69 :> [name |-> "ADC", addressing |-> "Immediate", len |-> 2, cycles |-> 2]) @@
    (\h65 :> [name |-> "ADC", addressing |-> "ZeroPage",  len |-> 2, cycles |-> 3]) @@
    (\hE5 :> [name |-> "SBC", addressing |-> "ZeroPage",  len |-> 2, cycles |-> 3]) @@
    (\h48 :> [name |-> "PHA", addressing |-> "Implied",   len |-> 1, cycles |-> 3]) @@
    (\h68 :> [name |-> "PLA", addressing |-> "Implied",   len |-> 1, cycles |-> 4]) @@
    (\h9A :> [name |-> "TXS", addressing |-> "Implied",   len |-> 1, cycles |-> 2]) @@
    (\h20 :> [name |-> "JSR", addressing |-> "Absolute",  len |-> 3, cycles |-> 6]) @@
    (\h60 :> [name |-> "RTS", addressing |-> "Implied",   len |-> 1, cycles |-> 6]) @@
    (\h6B :> [name |-> "ARR", addressing |-> "Immediate", len |-> 2, cycles |-> 2]) @@
    (\h8B :> [name |-> "XAA", addressing |-> "Immediate", len |-> 2, cycles |-> 2]) @@
    (\hCB :> [name |-> "AXS", addressing |-> "Immediate", len |-> 2, cycles |-> 2]) @@
    (\h9F :> [name |-> "AHX", addressing |-> "AbsoluteY", len |-> 3, cycles |-> 5]) @@
    (\h9E :> [name |-> "SHX", addressing |-> "AbsoluteY", len |-> 3, cycles |-> 5]) @@
    (\h9C :> [name |-> "SHY", addressing |-> "AbsoluteX", len |-> 3, cycles |-> 5]) @@
    (\h9B :> [name |-> "TAS", addressing |-> "AbsoluteY", len |-> 3, cycles |-> 5]) @@
    (\hBB :> [name |-> "LAS", addressing |-> "AbsoluteY", len |-> 3, cycles |-> 4]) @@
    (\hAA :> [name |-> "TAX", addressing |-> "Implied",   len |-> 1, cycles |-> 2]) @@
    (\hA8 :> [name |-> "TAY", addressing |-> "Implied",   len |-> 1, cycles |-> 2]) @@
    (\h08 :> [name |-> "PHP", addressing |-> "Implied",   len |-> 1, cycles |-> 3]) @@
    (\h28 :> [name |-> "PLP", addressing |-> "Implied",   len |-> 1, cycles |-> 4]) @@
    (\h40 :> [name |-> "RTI", addressing |-> "Implied",   len |-> 1, cycles |-> 6])

\* CPU::set_zero_or_neg_flags: Z is bit 1 and N is bit 7 of the status byte
set_zero_or_neg_flags(c, value) ==
    LET z == IF value = 0 THEN SetBit(c.status, 1) ELSE ClearBit(c.status, 1)
        n == IF Bit(value, 7) = 1 THEN SetBit(z, 7) ELSE ClearBit(z, 7)
    IN  [c EXCEPT !.status = n]

\* the result of resolving an operand: the Address, the bus after the reads
\* it took, and whether one of them panicked
Resolved(address, r) == [address |-> address, bus |-> r.bus, panic |-> r.panic]

\* CPU::absolute: the operand address, read through Bus::read16, plus the
\* offset with 16-bit wrap
absolute(m, offset, dbg, st) ==
    LET r == NesBus_read16(m.bus, m.cpu.program_counter, dbg, st, st) IN
    Resolved(Absolute(U16(r.ret + offset)), r)

\* CPU::zero_page as a bug would have it: the sum of operand and offset is
\* not cut to a byte
zero_page_unwrapped(m, offset, dbg, st) ==
    LET r == NesBus_read(m.bus, m.cpu.program_counter, dbg, st) IN
    Resolved(Absolute(r.ret + offset), r)

\* CPU::zero_page: operand byte plus offset, wrapping in the byte
zero_page(m, offset, dbg, st) ==
    LET r == NesBus_read(m.bus, m.cpu.program_counter, dbg, st) IN
    Resolved(Absolute(U8(r.ret + offset)), r)

\* CPU::indirect_x / indirect_y, the end: the pointer read joined and the
\* offset added with 16-bit wrap
pointer_join(hi, lo, offset) ==
    Resolved(Absolute(U16(hi.ret * 256 + lo.ret + offset)), lo)

\* CPU::indirect_x / indirect_y, the read of address_lo at the pointer
pointer_lo(base, hi, offset, dbg, st) ==
    IF hi.panic THEN Resolved(Implied, hi)
    ELSE pointer_join(hi, NesBus_read(hi.bus, base, dbg, st), offset)

\* CPU::indirect_x / indirect_y, the read of address_hi at the pointer plus
\* one, which wraps in the byte; r is the read of the operand
pointer_hi(r, base, offset, dbg, st) ==
    IF r.panic THEN Resolved(Implied, r)
    ELSE pointer_lo(base, NesBus_read(r.bus, U8(base + 1), dbg, st), offset, dbg, st)

\* CPU::indirect_x, after the read r of the operand
indirect_x_at(r, x, dbg, st) == pointer_hi(r, U8(r.ret + x), 0, dbg, st)

\* CPU::indirect_x
indirect_x(m, dbg, st) ==
    indirect_x_at(NesBus_read(m.bus, m.cpu.program_counter, dbg, st),
                  m.cpu.x_register, dbg, st)

\* CPU::indirect_y, after the read r of the operand
indirect_y_at(r, y, dbg, st) == pointer_hi(r, r.ret, y, dbg, st)

\* CPU::indirect_y
indirect_y(m, dbg, st) ==
    indirect_y_at(NesBus_read(m.bus, m.cpu.program_counter, dbg, st),
                  m.cpu.y_register, dbg, st)

\* CPU::relative: the displacement byte at the program counter
relative(m, dbg, st) ==
    LET r == NesBus_read(m.bus, m.cpu.program_counter, dbg, st) IN
    Resolved(Relative(r.ret), r)

\* CPU::indirect, the end: hi is the read of the high byte, lo the read of
\* the low byte made after it
indirect_join(hi, lo) == Resolved(Absolute(hi.ret * 256 + lo.ret), lo)

\* CPU::indirect, from the read of the low byte at indirect_address on
indirect_lo(indirect_address, hi, dbg, st) ==
    IF hi.panic THEN Resolved(Implied, hi)
    ELSE indirect_join(hi, NesBus_read(hi.bus, indirect_address, dbg, st))

\* CPU::indirect, from `indirect_address + 1` on: r is the read16 of the
\* pointer and next the sum as the build computes it.  The high byte comes
\* from the page of the pointer.
indirect_hi(r, next, dbg, st) ==
    IF r.panic \/ next.panic THEN Resolved(Implied, BusOutcome(r.bus, 0, TRUE))
    ELSE indirect_lo(r.ret,
                     NesBus_read(r.bus, (r.ret - (r.ret % 256)) + (next.val % 256), dbg, st),
                     dbg, st)

\* CPU::indirect, from the pointer read on
indirect_ptr(r, dbg, st) == indirect_hi(r, AddU16(r.ret, 1, dbg), dbg, st)

\* CPU::indirect
indirect(m, dbg, st) ==
    indirect_ptr(NesBus_read16(m.bus, m.cpu.program_counter, dbg, st, st), dbg, st)

\* CPU::resolve_address
resolve_address(m, addressing, dbg, st) ==
    CASE addressing = "Absolute" -> absolute(m, 0, dbg, st)
      [] addressing = "AbsoluteX" -> absolute(m, m.cpu.x_register, dbg, st)
      [] addressing = "AbsoluteY" -> absolute(m, m.cpu.y_register, dbg, st)
      [] addressing = "ZeroPage" -> zero_page(m, 0, dbg, st)
      [] addressing = "ZeroPageX" -> zero_page(m, m.cpu.x_register, dbg, st)
      [] addressing = "ZeroPageY" -> zero_page(m, m.cpu.y_register, dbg, st)
      [] addressing = "IndirectX" -> indirect_x(m, dbg, st)
      [] addressing = "IndirectY" -> indirect_y(m, dbg, st)
      [] addressing = "Indirect" -> indirect(m, dbg, st)
      [] addressing = "Relative" -> relative(m, dbg, st)
      [] addressing = "Immediate" ->
            Resolved(Absolute(m.cpu.program_counter), Machine(m.cpu, m.bus, FALSE))
      [] OTHER -> Resolved(Implied, Machine(m.cpu, m.bus, FALSE))

\* the arm of CPU::lda: load the accumulator with the byte read, set Z and N
lda_arm(m, r) ==
    Machine(set_zero_or_neg_flags([m.cpu EXCEPT !.accumulator = r.ret], r.ret),
            r.bus, r.panic)

\* CPU::lda.  The body is the arm of a debug_assert_matches!, which a build
\* without debug_assertions does not evaluate.
lda(m, address, dbg, st) ==
    IF ~dbg THEN m
    ELSE IF address.kind # "Absolute" THEN [m EXCEPT !.panic = TRUE]
    ELSE lda_arm(m, NesBus_read(m.bus, address.addr, dbg, st))

\* the arm of CPU::sta
sta_arm(m, r) == Machine(m.cpu, r.bus, r.panic)

\* CPU::sta (the arm of a debug_assert_matches!)
sta(m, address, dbg) ==
    IF ~dbg THEN m
    ELSE IF address.kind # "Absolute" THEN [m EXCEPT !.panic = TRUE]
    ELSE sta_arm(m, NesBus_write(m.bus, address.addr, m.cpu.accumulator, dbg))

\* CPU::jmp (the arm of a debug_assert_matches!)
jmp(m, address, dbg) ==
    IF ~dbg THEN m
    ELSE IF address.kind # "Absolute" THEN [m EXCEPT !.panic = TRUE]
    ELSE [m EXCEPT !.cpu.program_counter = address.addr]

\* CPU::sec: the assertion on the address is made in a build with
\* debug_assertions only, the flag is set in every build
sec(m, address, dbg) ==
    IF dbg /\ address.kind # "Implied" THEN [m EXCEPT !.panic = TRUE]
    ELSE [m EXCEPT !.cpu.status = SetBit(@, 0)]

\* a & b on bytes
And8(a, b) ==
    Bit(a, 0) * Bit(b, 0) + 2 * Bit(a, 1) * Bit(b, 1) + 4 * Bit(a, 2) * Bit(b, 2)
    + 8 * Bit(a, 3) * Bit(b, 3) + 16 * Bit(a, 4) * Bit(b, 4) + 32 * Bit(a, 5) * Bit(b, 5)
    + 64 * Bit(a, 6) * Bit(b, 6) + 128 * Bit(a, 7) * Bit(b, 7)

\* the status byte with bit k set to b
PutBit(n, k, b) == IF b THEN SetBit(n, k) ELSE ClearBit(n, k)

\* the arm of CPU::bit: Z from A & value, O (bit 6) and N (bit 7) from value
bit_arm(m, r) ==
    Machine([m.cpu EXCEPT !.status =
                PutBit(PutBit(PutBit(@, 1, And8(m.cpu.accumulator, r.ret) = 0),
                              6, Bit(r.ret, 6) = 1),
                       7, Bit(r.ret, 7) = 1)],
            r.bus, r.panic)

\* CPU::bit (the arm of a debug_assert_matches!)
bit(m, address, dbg, st) ==
    IF ~dbg THEN m
    ELSE IF address.kind # "Absolute" THEN [m EXCEPT !.panic = TRUE]
    ELSE bit_arm(m, NesBus_read(m.bus, address.addr, dbg, st))

\* s8_to_u16: the byte sign-extended to 16 bits
s8_to_u16(value) == IF Bit(value, 7) = 1 THEN value + \hFF00 ELSE value

\* the branch of CPU::branch that is taken: one more cycle, or two when the
\* target lies in another page than the program counter
branch_taken(m, target) ==
    [m EXCEPT !.cpu.remaining_cycles =
                  U8(@ + (IF target \div 256 # m.cpu.program_counter \div 256
                          THEN 2 ELSE 1)),
              !.cpu.program_counter = target]

\* CPU::branch (the arm of a debug_assert_matches!)
branch(m, address, cond, dbg) ==
    IF ~dbg THEN m
    ELSE IF address.kind # "Relative" THEN [m EXCEPT !.panic = TRUE]
    ELSE IF cond
         THEN branch_taken(m, U16(s8_to_u16(address.addr) + m.cpu.program_counter))
    ELSE m

\* the StatusFlags bit a branch tests and the value it branches on
BranchFlag ==
    [BPL |-> 7, BMI |-> 7, BVC |-> 6, BVS |-> 6,
     BCC |-> 0, BCS |-> 0, BNE |-> 1, BEQ |-> 1]
BranchOn ==
    [BPL |-> 0, BMI |-> 1, BVC |-> 0, BVS |-> 1,
     BCC |-> 0, BCS |-> 1, BNE |-> 0, BEQ |-> 1]

\* CPU::bcc, bcs, beq, bmi, bne, bpl, bvc, bvs
branch_on(m, name, address, dbg) ==
    branch(m, address, Bit(m.cpu.status, BranchFlag[name]) = BranchOn[name], dbg)

\* the arms of CPU::ldx and CPU::ldy
ldx_arm(m, r) ==
    Machine(set_zero_or_neg_flags([m.cpu EXCEPT !.x_register = r.ret], r.ret),
            r.bus, r.panic)
ldy_arm(m, r) ==
    Machine(set_zero_or_neg_flags([m.cpu EXCEPT !.y_register = r.ret], r.ret),
            r.bus, r.panic)

\* CPU::ldx, CPU::ldy (the arms of a debug_assert_matches!)
ldx(m, address, dbg, st) ==
    IF ~dbg THEN m
    ELSE IF address.kind # "Absolute" THEN [m EXCEPT !.panic = TRUE]
    ELSE ldx_arm(m, NesBus_read(m.bus, address.addr, dbg, st))
ldy(m, address, dbg, st) ==
    IF ~dbg THEN m
    ELSE IF address.kind # "Absolute" THEN [m EXCEPT !.panic = TRUE]
    ELSE ldy_arm(m, NesBus_read(m.bus, address.addr, dbg, st))

\* CPU::stx, CPU::sty (the arms of a debug_assert_matches!)
stx(m, address, dbg) ==
    IF ~dbg THEN m
    ELSE IF address.kind # "Absolute" THEN [m EXCEPT !.panic = TRUE]
    ELSE sta_arm(m, NesBus_write(m.bus, address.addr, m.cpu.x_register, dbg))
sty(m, address, dbg) ==
    IF ~dbg THEN m
    ELSE IF address.kind # "Absolute" THEN [m EXCEPT !.panic = TRUE]
    ELSE sta_arm(m, NesBus_write(m.bus, address.addr, m.cpu.y_register, dbg))

\* CPU::adc, the flags and the accumulator from the 16-bit sum `result`:
\* C (bit 0) is the carry out, O (bit 6) is bit 7 of
\* !(A ^ value) & (A ^ result_u8), Z and N come from the low byte
adc_flags(c, value, result) ==
    set_zero_or_neg_flags(
        [c EXCEPT !.status =
                      PutBit(PutBit(@, 0, result > 255), 6,
                             /\ Bit(c.accumulator, 7) = Bit(value, 7)
                             /\ Bit(c.accumulator, 7) # Bit(U8(result), 7)),
                  !.accumulator = U8(result)],
        U8(result))

\* the arm of CPU::adc: r is the read of the operand
adc_arm(m, r) ==
    Machine(adc_flags(m.cpu, r.ret, m.cpu.accumulator + r.ret + Bit(m.cpu.status, 0)),
            r.bus, r.panic)

\* CPU::adc (the arm of a debug_assert_matches!)
adc(m, address, dbg, st) ==
    IF ~dbg THEN m
    ELSE IF address.kind # "Absolute" THEN [m EXCEPT !.panic = TRUE]
    ELSE adc_arm(m, NesBus_read(m.bus, address.addr, dbg, st))

\* CPU::sbc as a bug would have it: the overflow rule of ADC, on the operand
\* as it was read
sbc_flags_as_adc(c, value, result) == adc_flags(c, value, result)

\* CPU::sbc, the flags and the accumulator from the 16-bit sum `result` of
\* A, !value and the carry: O is bit 7 of (A ^ value) & (A ^ result_u8)
sbc_flags(c, value, result) ==
    [c EXCEPT !.status =
                  PutBit(PutBit(PutBit(PutBit(@, 0, result > 255),
                                       1, U8(result) = 0),
                                6, /\ Bit(c.accumulator, 7) # Bit(value, 7)
                                   /\ Bit(c.accumulator, 7) # Bit(U8(result), 7)),
                         7, Bit(U8(result), 7) = 1),
              !.accumulator = U8(result)]

\* the arm of CPU::sbc: r is the read of the operand
sbc_arm(m, r) ==
    Machine(sbc_flags(m.cpu, r.ret,
                      m.cpu.accumulator + (255 - r.ret) + Bit(m.cpu.status, 0)),
            r.bus, r.panic)

\* CPU::sbc (the arm of a debug_assert_matches!)
sbc(m, address, dbg, st) ==
    IF ~dbg THEN m
    ELSE IF address.kind # "Absolute" THEN [m EXCEPT !.panic = TRUE]
    ELSE sbc_arm(m, NesBus_read(m.bus, address.addr, dbg, st))

STACK_PAGE == \h0100

\* CPU::push_stack, after the write w of the byte
pushed(m, w, sp) ==
    Machine([m.cpu EXCEPT !.stack_pointer = sp], w.bus, m.panic \/ w.panic)

\* CPU::push_stack as a bug would have it: the stack pointer saturates at 0
push_stack_saturating(m, data, dbg) ==
    pushed(m, NesBus_write(m.bus, STACK_PAGE + m.cpu.stack_pointer, data, dbg),
           IF m.cpu.stack_pointer = 0 THEN 0 ELSE m.cpu.stack_pointer - 1)

\* CPU::push_stack: the byte is written at STACK_PAGE + stack_pointer, then
\* the stack pointer is decremented with wrapping_sub
push_stack(m, data, dbg) ==
    pushed(m, NesBus_write(m.bus, STACK_PAGE + m.cpu.stack_pointer, data, dbg),
           U8(m.cpu.stack_pointer + 255))

\* CPU::push_stack_16: high byte, then low byte
push_stack_16(m, data, dbg) ==
    push_stack(push_stack(m, data \div 256, dbg), data % 256, dbg)

\* the outcome of a pop: the machine afterwards and the value popped
Popped(m, r) ==
    [m |-> Machine(m.cpu, r.bus, m.panic \/ r.panic), ret |-> r.ret]

\* CPU::pop_stack, the read made after the increment; m has the new pointer
pop_read(m, dbg, st) ==
    Popped(m, NesBus_read(m.bus, STACK_PAGE + m.cpu.stack_pointer, dbg, st))

\* CPU::pop_stack: the stack pointer is incremented with wrapping_add, then
\* the byte at STACK_PAGE + stack_pointer is read
pop_stack(m, dbg, st) ==
    pop_read([m EXCEPT !.cpu.stack_pointer = U8(@ + 1)], dbg, st)

\* CPU::pop_stack_16: lo is the first pop, hi the second
pop_join(lo, hi) == [m |-> hi.m, ret |-> hi.ret * 256 + lo.ret]
pop_hi(lo, dbg, st) == pop_join(lo, pop_stack(lo.m, dbg, st))
pop_stack_16(m, dbg, st) == pop_hi(pop_stack(m, dbg, st), dbg, st)

\* CPU::pha: the assertion on the address is made in a build with
\* debug_assertions only, the push in every build
pha(m, address, dbg) ==
    IF dbg /\ address.kind # "Implied" THEN [m EXCEPT !.panic = TRUE]
    ELSE push_stack(m, m.cpu.accumulator, dbg)

\* CPU::pla, after the pop p
pla_arm(p) ==
    Machine(set_zero_or_neg_flags([p.m.cpu EXCEPT !.accumulator = p.ret], p.ret),
            p.m.bus, p.m.panic)

\* CPU::pla
pla(m, address, dbg, st) ==
    IF dbg /\ address.kind # "Implied" THEN [m EXCEPT !.panic = TRUE]
    ELSE pla_arm(pop_stack(m, dbg, st))

\* CPU::php: the status byte is pushed with B (bit 4) set
php(m, address, dbg) ==
    IF dbg /\ address.kind # "Implied" THEN [m EXCEPT !.panic = TRUE]
    ELSE push_stack(m, SetBit(m.cpu.status, 4), dbg)

\* CPU::plp as a bug would have it: the popped byte becomes the status
plp_arm_raw(p, old_status) ==
    Machine([p.m.cpu EXCEPT !.status = p.ret], p.m.bus, p.m.panic)

\* CPU::plp as a bug would have it: B is kept, X comes from the popped byte
plp_arm_keeps_b(p, old_status) ==
    Machine([p.m.cpu EXCEPT !.status = PutBit(p.ret, 4, Bit(old_status, 4) = 1)],
            p.m.bus, p.m.panic)

\* CPU::plp as a bug would have it: X is kept, B comes from the popped byte
plp_arm_keeps_x(p, old_status) ==
    Machine([p.m.cpu EXCEPT !.status = PutBit(p.ret, 5, Bit(old_status, 5) = 1)],
            p.m.bus, p.m.panic)

\* CPU::plp, after the pop p: the popped byte with B (bit 4) and X (bit 5) as
\* they were in old_status
plp_arm(p, old_status) ==
    Machine([p.m.cpu EXCEPT !.status =
                 PutBit(PutBit(p.ret, 4, Bit(old_status, 4) = 1),
                        5, Bit(old_status, 5) = 1)],
            p.m.bus, p.m.panic)

\* CPU::plp: the assertion on the address is made in a build with
\* debug_assertions only, the pop in every build
plp(m, address, dbg, st) ==
    IF dbg /\ address.kind # "Implied" THEN [m EXCEPT !.panic = TRUE]
    ELSE plp_arm(pop_stack(m, dbg, st), m.cpu.status)

\* CPU::rti, after the plp: the program counter is popped, low byte first
rti_arm(p) ==
    Machine([p.m.cpu EXCEPT !.program_counter = p.ret], p.m.bus, p.m.panic)
rti_pop(m, dbg, st) ==
    IF m.panic THEN m ELSE rti_arm(pop_stack_16(m, dbg, st))

\* CPU::rti
rti(m, address, dbg, st) == rti_pop(plp(m, address, dbg, st), dbg, st)

\* CPU::tax, CPU::tay
tax(m, address, dbg) ==
    IF dbg /\ address.kind # "Implied" THEN [m EXCEPT !.panic = TRUE]
    ELSE [m EXCEPT !.cpu = set_zero_or_neg_flags(
                               [@ EXCEPT !.x_register = m.cpu.accumulator],
                               m.cpu.accumulator)]
tay(m, address, dbg) ==
    IF dbg /\ address.kind # "Implied" THEN [m EXCEPT !.panic = TRUE]
    ELSE [m EXCEPT !.cpu = set_zero_or_neg_flags(
                               [@ EXCEPT !.y_register = m.cpu.accumulator],
                               m.cpu.accumulator)]

\* CPU::txs
txs(m, address, dbg) ==
    IF dbg /\ address.kind # "Implied" THEN [m EXCEPT !.panic = TRUE]
    ELSE [m EXCEPT !.cpu.stack_pointer = m.cpu.x_register]

\* CPU::brk: B (bit 4) is set, in every build
brk(m, address, dbg) ==
    IF dbg /\ address.kind # "Implied" THEN [m EXCEPT !.panic = TRUE]
    ELSE [m EXCEPT !.cpu.status = SetBit(@, 4)]

\* CPU::jsr (the arm of a debug_assert_matches!): program_counter - 1 is a
\* u16 subtraction, made with overflow checks in the builds that run it
jsr(m, address, dbg) ==
    IF ~dbg THEN m
    ELSE IF address.kind # "Absolute" \/ m.cpu.program_counter = 0
    THEN [m EXCEPT !.panic = TRUE]
    ELSE [push_stack_16(m, m.cpu.program_counter - 1, dbg)
              EXCEPT !.cpu.program_counter = address.addr]

\* CPU::rts, after the pop p: `self.pop_stack_16() + 1`
rts_arm(p, pc) ==
    Machine([p.m.cpu EXCEPT !.program_counter = pc.val], p.m.bus,
            p.m.panic \/ pc.panic)
rts_popped(p, dbg) == rts_arm(p, AddU16(p.ret, 1, dbg))

\* CPU::rts
rts(m, address, dbg, st) ==
    IF dbg /\ address.kind # "Implied" THEN [m EXCEPT !.panic = TRUE]
    ELSE rts_popped(pop_stack_16(m, dbg, st), dbg)

\* the handlers left unimplemented as a bug would have them: nothing happens
todo_silent(m) == m

\* CPU::ahx, arr, axs, las, shx, shy, tas, xaa: `todo!(..)`, a panic
todo(m) == [m EXCEPT !.panic = TRUE]

\* the mnemonics whose handler is a todo!
Unimplemented == {"ARR", "XAA", "AHX", "SHX", "SHY", "TAS", "LAS", "AXS"}

\* Opcode::execute
execute(m, name, address, dbg, st) ==
    CASE name = "LDA" -> lda(m, address, dbg, st)
      [] name = "STA" -> sta(m, address, dbg)
      [] name = "JMP" -> jmp(m, address, dbg)
      [] name = "SEC" -> sec(m, address, dbg)
      [] name = "BIT" -> bit(m, address, dbg, st)
      [] name \in DOMAIN BranchFlag -> branch_on(m, name, address, dbg)
      [] name = "LDX" -> ldx(m, address, dbg, st)
      [] name = "LDY" -> ldy(m, address, dbg, st)
      [] name = "STX" -> stx(m, address, dbg)
      [] name = "STY" -> sty(m, address, dbg)
      [] name = "ADC" -> adc(m, address, dbg, st)
      [] name = "SBC" -> sbc(m, address, dbg, st)
      [] name = "PHA" -> pha(m, address, dbg)
      [] name = "PLA" -> pla(m, address, dbg, st)
      [] name = "TXS" -> txs(m, address, dbg)
      [] name = "TAX" -> tax(m, address, dbg)
      [] name = "TAY" -> tay(m, address, dbg)
      [] name = "BRK" -> brk(m, address, dbg)
      [] name = "JSR" -> jsr(m, address, dbg)
      [] name = "RTS" -> rts(m, address, dbg, st)
      [] name = "PHP" -> php(m, address, dbg)
      [] name = "PLP" -> plp(m, address, dbg, st)
      [] name = "RTI" -> rti(m, address, dbg, st)
      [] name \in Unimplemented -> todo(m)
      [] OTHER -> m

\* CPU::cycle, `self.remaining_cycles += op.cycles()`
charge(m, cycles) ==
    IF m.panic THEN m ELSE [m EXCEPT !.cpu.remaining_cycles = U8(@ + cycles)]

\* CPU::cycle, from `self.program_counter += op.len() - 1` on: ra is the
\* resolved operand and pc2 the program counter past the instruction
run(m, op, ra, pc2, dbg, st) ==
    IF ra.panic \/ pc2.panic THEN Machine(m.cpu, ra.bus, TRUE)
    ELSE charge(execute(Machine([m.cpu EXCEPT !.program_counter = pc2.val],
                                ra.bus, FALSE),
                        op.name, ra.address, dbg, st),
                op.cycles)

\* CPU::cycle, from `let address = self.resolve_address(..)` on: m has the
\* program counter past the opcode
operand(m, op, dbg, st) ==
    run(m, op, resolve_address(m, op.addressing, dbg, st),
        AddU16(m.cpu.program_counter, op.len - 1, dbg), dbg, st)

\* CPU::cycle, from `self.program_counter += 1` on: f is the opcode fetch
decode(m, f, pc1, dbg, st) ==
    IF f.panic \/ pc1.panic THEN Machine(m.cpu, f.bus, TRUE)
    ELSE operand(Machine([m.cpu EXCEPT !.program_counter = pc1.val], f.bus, FALSE),
                 OPCODE_TABLE[f.ret], dbg, st)

\* the fetch / decode / execute half of CPU::cycle, taken when
\* remaining_cycles is 0
fetch_execute(m, dbg, st) ==
    decode(m, NesBus_read(m.bus, m.cpu.program_counter, dbg, st),
           AddU16(m.cpu.program_counter, 1, dbg), dbg, st)

\* CPU::cycle, `self.total_cycles += 1; self.remaining_cycles -= 1`
tick(m) ==
    IF m.panic THEN m
    ELSE [m EXCEPT !.cpu.total_cycles = @ + 1, !.cpu.remaining_cycles = @ - 1]

\* CPU::cycle
cycle(m, dbg, st) ==
    tick(IF m.cpu.remaining_cycles = 0 THEN fetch_execute(m, dbg, st) ELSE m)

\* the loop of CPU::step as a bug would have it: an `if` in place of the
\* `while`
drain_once(m, dbg, st) ==
    IF m.panic \/ m.cpu.remaining_cycles = 0 THEN m ELSE cycle(m, dbg, st)

\* the `while self.remaining_cycles != 0 { self.cycle() }` loop of CPU::step
RECURSIVE drain(_, _, _)
drain(m, dbg, st) ==
    IF m.panic \/ m.cpu.remaining_cycles = 0 THEN m
    ELSE drain(cycle(m, dbg, st), dbg, st)

\* what CPU::trace and CPU::hexdump leave: the bus after their reads, whether
\* one of them panicked, and the bytes dumped
Traced(b, f, d) == [bus |-> b, panic |-> f, dump |-> d]

\* CPU::hexdump, one turn of the loop: r is the read of the byte
hex_push(t, r) == Traced(r.bus, r.panic, Append(t.dump, r.ret))

\* CPU::hexdump: `for addr in start..end`, each byte read through the bus
RECURSIVE hexdump(_, _, _, _, _)
hexdump(t, addr, end, dbg, st) ==
    IF t.panic \/ addr >= end THEN t
    ELSE hexdump(hex_push(t, NesBus_read(t.bus, addr, dbg, st)), addr + 1, end, dbg, st)

\* CPU::trace, after the read f of the opcode: the dump runs from the
\* program counter to `self.program_counter + op.len()`, a u16 addition
trace_op(m, f, dbg, st) ==
    IF f.panic THEN Traced(f.bus, TRUE, <<>>)
    ELSE hexdump(Traced(f.bus,
                        AddU16(m.cpu.program_counter, OPCODE_TABLE[f.ret].len, dbg).panic,
                        <<>>),
                 m.cpu.program_counter,
                 AddU16(m.cpu.program_counter, OPCODE_TABLE[f.ret].len, dbg).val,
                 dbg, st)

\* CPU::trace: the registers are only formatted, the instruction bytes are
\* read through Bus::read
trace(m, dbg, st) ==
    trace_op(m, NesBus_read(m.bus, m.cpu.program_counter, dbg, st), dbg, st)

\* the loop condition of CPU::run_until_brk as a bug would have it: the carry
\* flag is tested
status_lacks_carry(c) == Bit(c.status, 0) = 0

\* the loop condition of CPU::run_until_brk,
\* `!self.status.contains(StatusFlags::B)`
status_lacks_brk(c) == Bit(c.status, 4) = 0

\* CPU::step
step(m, dbg, st) == drain(cycle(m, dbg, st), dbg, st)

----------------------------------------------------------------------------
(* Observations.                                                           *)

NoOp == [op |-> "none", addr |-> 0, val |-> 0, ret |-> 0]
Op(o, a, v, r) == [op |-> o, addr |-> a, val |-> v, ret |-> r]

\* the image the register tests load: 0x8000 zero bytes (no PRG bank)
TestImage == Buffer(32768, ArrEmpty)

\* NesBus::new(Cartridge::from_rom(buffer))
Construct(buffer) ==
    LET made == from_rom(buffer)
        bus == NesBus_new(made.cart)
    IN  /\ image = buffer
        /\ panicked = made.panic
        /\ ram = bus.cpu_vram
        /\ cart = bus.cartridge
        /\ ppu = bus.ppu

\* the bus in the current state
BusNow == Bus(ram, cart, ppu)

\* a bus read in the current state, with the stores of a PPU read applied
ReadNow(a) == NesBus_read(BusNow, a, debug, TRUE)

\* CPU::new(pc, bus)
CPU_new(pc) ==
    [ accumulator      |-> 0,
      x_register       |-> 0,
      y_register       |-> 0,
      program_counter  |-> pc,
      remaining_cycles |-> 0,
      total_cycles     |-> 0,
      stack_pointer    |-> \hFD,
      status           |-> \h24 ]

----------------------------------------------------------------------------
(* The dot clock alone: a fresh PPU driven by NesBus::step_ppu.            *)

InitClock ==
    /\ debug = TRUE
    /\ Construct(TestImage)
    /\ cpu = CPU_new(\h8000)
    /\ last = NoOp
    /\ steps = 0
    /\ lastw = ArrEmpty
    /\ shadow = ArrEmpty
    /\ nmi_line = FALSE

\* NesBus::step_ppu
StepPpu ==
    /\ ~panicked
    /\ ~(ppu.cycle = 340 /\ ppu.scanline = 261 /\ ppu.frame >= MaxFrame)
    /\ ppu' = clock(ppu)
    /\ last' = Op("clock", 0, 0, 0)
    /\ UNCHANGED <<debug, image, ram, cart, cpu, panicked, steps, lastw, shadow, nmi_line>>

NextClock == StepPpu

SpecClock == InitClock /\ [][NextClock]_vars

----------------------------------------------------------------------------
(* The PPU register file: PPU::cpu_read / PPU::cpu_write on a fresh PPU.   *)

PpuRegs == \h2000 .. \h2007
PpuVals == {\h00, \h04, \h80, \hFF}

InitPpu ==
    /\ debug \in BOOLEAN
    /\ Construct(TestImage)
    /\ cpu = CPU_new(\h8000)
    /\ last = NoOp
    /\ steps = 0
    /\ lastw = ArrEmpty
    /\ shadow = ArrEmpty
    /\ nmi_line = FALSE

PpuAccess(o, a, v, res) ==
    /\ ppu' = res.ppu
    /\ panicked' = res.panic
    /\ last' = Op(o, a, v, res.ret)
    /\ steps' = steps + 1
    /\ UNCHANGED <<debug, image, ram, cart, cpu, lastw, shadow, nmi_line>>

PpuRead ==
    /\ ~panicked
    /\ steps < MaxOps
    /\ \E a \in PpuRegs : PpuAccess("read", a, 0, cpu_read(ppu, a, debug))

PpuWrite ==
    /\ ~panicked
    /\ steps < MaxOps
    /\ \E a \in PpuRegs, v \in PpuVals :
          PpuAccess("write", a, v, cpu_write(ppu, a, v, debug))

NextPpu == PpuRead \/ PpuWrite

SpecPpu == InitPpu /\ [][NextPpu]_vars

----------------------------------------------------------------------------
(* The NES bus: <NesBus as Bus>::read / write and Bus::read16 on a bus     *)
(* built from one of a few cartridge images.                               *)

\* a 16 KiB image, and a 32 KiB image with a trainer
Prg16 == (0 :> \h4C) @@ (16383 :> \h11)
Prg32 == (0 :> \h4C) @@ (16383 :> \h11) @@ (16384 :> \h22) @@ (32767 :> \h33)
RomImages == {TestImage, Image(1, 0, Prg16), Image(2, 4, Prg32)}

\* the addresses and bytes the bus is driven with
BusAddrs ==
    { \h0000, \h0800, \h1FFF,
      \h2000, \h3FFA, \h2006, \h3FFF,
      \h4000, \h5FFF,
      \h6000,
      \h8000, \hFFFF }
Read16Addrs == {\h07FF, \h1FFF, \h7FFF, \hFFFF}
BusVals == {\h3F, \h80}

\* whether a store made through the shared-reference cast of NesBus::read
\* takes effect: it does in an unoptimised build; an optimising build may
\* assume memory behind `&self` is not written
StoreChoices == IF debug THEN {TRUE} ELSE BOOLEAN

\* the storage cell an address selects, after the memory map of the console
SameCell(a, b) ==
    \/ a = b
    \/ a < 8192 /\ b < 8192 /\ a % 2048 = b % 2048

InitBus ==
    /\ debug \in BOOLEAN
    /\ \E img \in RomImages : Construct(img)
    /\ cpu = CPU_new(\h8000)
    /\ last = NoOp
    /\ steps = 0
    /\ lastw = ArrEmpty
    /\ shadow = ArrEmpty
    /\ nmi_line = FALSE

BusAccess(o, a, v, res) ==
    /\ ram' = res.bus.cpu_vram
    /\ cart' = res.bus.cartridge
    /\ ppu' = res.bus.ppu
    /\ panicked' = res.panic
    /\ last' = Op(o, a, v, res.ret)
    /\ steps' = steps + 1
    /\ UNCHANGED <<debug, image, cpu, nmi_line>>

BusRead ==
    /\ ~panicked
    /\ steps < MaxBusOps
    /\ \E a \in BusAddrs, st \in StoreChoices :
          /\ BusAccess("read", a, 0, NesBus_read(BusNow, a, debug, st))
          /\ UNCHANGED <<lastw, shadow>>

BusRead16 ==
    /\ ~panicked
    /\ steps < MaxBusOps
    /\ \E a \in Read16Addrs, st1 \in StoreChoices, st2 \in StoreChoices :
          /\ BusAccess("read16", a, 0, NesBus_read16(BusNow, a, debug, st1, st2))
          /\ UNCHANGED <<lastw, shadow>>

BusWrite ==
    /\ ~panicked
    /\ steps < MaxBusOps
    /\ \E a \in BusAddrs, v \in BusVals :
          LET res == NesBus_write(BusNow, a, v, debug) IN
          /\ BusAccess("write", a, v, res)
          /\ IF res.panic
             THEN UNCHANGED <<lastw, shadow>>
             ELSE /\ lastw' = [x \in (DOMAIN lastw) \cup {a} |->
                                 IF x = a THEN v ELSE lastw[x]]
                  /\ shadow' = [x \in (DOMAIN shadow) \cup {a} |->
                                 IF SameCell(x, a) THEN v ELSE shadow[x]]

NextBus == BusRead \/ BusRead16 \/ BusWrite

SpecBus == InitBus /\ [][NextBus]_vars

\* the console as a whole
Init == InitBus
Next == NextBus
Spec == SpecBus

----------------------------------------------------------------------------
(* The console: the CPU stepping a program from the cartridge on the NES   *)
(* bus while NesBus::step_ppu clocks the PPU through the first dots of     *)
(* the start-up scanline.                                                  *)

\* A 16 KiB image.  $8000: LDA #$80 ; STA $2000 ; JMP $8005.  The NMI vector
\* at $FFFA/$FFFB points at $9000, where a NOP stands.
NmiProgram ==
    (0 :> \hA9) @@ (1 :> \h80) @@
    (2 :> \h8D) @@ (3 :> \h00) @@ (4 :> \h20) @@
    (5 :> \h4C) @@ (6 :> \h05) @@ (7 :> \h80) @@
    (4096 :> \hEA) @@
    (16378 :> \h00) @@ (16379 :> \h90)
NmiImage == Image(1, 0, NmiProgram)

InitNes ==
    /\ debug \in BOOLEAN
    /\ Construct(NmiImage)
    /\ cpu = CPU_new(\h8000)
    /\ last = NoOp
    /\ steps = 0
    /\ lastw = ArrEmpty
    /\ shadow = ArrEmpty
    /\ nmi_line = FALSE

\* the console after a CPU step that left the machine m
CpuStepTo(m) ==
    /\ cpu' = m.cpu
    /\ ram' = m.bus.cpu_vram
    /\ cart' = m.bus.cartridge
    /\ ppu' = m.bus.ppu
    /\ panicked' = m.panic

\* CPU::step on the console.  last records the address the opcode was fetched
\* from and the opcode; nmi_line the NMI query at this instruction boundary.
CpuStep ==
    /\ ~panicked
    /\ steps < MaxCpuSteps
    /\ ReadNow(cpu.program_counter).ret \in DOMAIN OPCODE_TABLE
    /\ \E st \in StoreChoices : CpuStepTo(step(Machine(cpu, BusNow, FALSE), debug, st))
    /\ last' = Op("step", cpu.program_counter, ReadNow(cpu.program_counter).ret, 0)
    /\ steps' = steps + 1
    /\ nmi_line' = nmi_occurred(ppu)
    /\ UNCHANGED <<debug, image, lastw, shadow>>

\* NesBus::step_ppu on the console, for the first dots of the scanline
NesStepPpu == ppu.cycle < MaxDots /\ StepPpu

NextNes == CpuStep \/ NesStepPpu

SpecNes == InitNes /\ [][NextNes]_vars

----------------------------------------------------------------------------
(* The CPU alone: CPU::step on a console whose cartridge holds branch and  *)
(* indirect-jump instructions, entered at one of them.                     *)

\* the branch opcodes, one per 1 KiB block of the PRG-ROM from $8000 on
BranchOpcodes == <<\h10, \h30, \h50, \h70, \h90, \hB0, \hD0, \hF0>>

\* the instruction that sets the flag the k-th branch opcode tests:
\* LDA #$80 (N), BIT $FFF0 (V; $FFF0 holds $40), SEC (C), LDA #$00 (Z)
FlagPrefix(k) ==
    CASE k \in {1, 2} -> <<\hA9, \h80>>
      [] k \in {3, 4} -> <<\h2C, \hF0, \hFF>>
      [] k \in {5, 6} -> <<\h38>>
      [] OTHER        -> <<\hA9, \h00>>

\* where in its block a branch stands, and its displacement byte: forward in
\* the same page, forward into the next page, backward into the previous
\* page, and a branch whose own bytes end the page it stands in
BranchSites == { <<\h010, \h10>>, <<\h0F0, \h20>>, <<\h200, \hF0>>, <<\h2FE, \h04>> }

\* PRG offsets and the bytes placed there: the branches with their prefixes,
\* JMP ($B0FF), JMP ($B010), JMP ($FFFF), BNE +$10 at $FFFD, and data
Placements ==
    { <<(k - 1) * 1024 + s[1], <<BranchOpcodes[k], s[2]>> >> :
          k \in 1 .. 8, s \in BranchSites }
    \cup { <<(k - 1) * 1024 + s[1] - Len(FlagPrefix(k)), FlagPrefix(k)>> :
          k \in 1 .. 8, s \in BranchSites }
    \cup { <<\h2000, <<\h6C, \hFF, \hB0>> >>,
           <<\h2010, <<\h6C, \h10, \hB0>> >>,
           <<\h2020, <<\h6C, \hFF, \hFF>> >>,
           <<\h3000, <<\hB2>> >>, <<\h30FF, <<\h34>> >>, <<\h3100, <<\hA5>> >>,
           <<\h3010, <<\h78, \hB2>> >>,
           <<\h7F00, <<\hB2>> >>, <<\h7FF0, <<\h40>> >>,
           <<\h7FFD, <<\hD0, \h10, \h56>> >> }

Covers(p, o) == o >= p[1] /\ o < p[1] + Len(p[2])
PlacedByte(o) == LET p == CHOOSE q \in Placements : Covers(q, o) IN p[2][o - p[1] + 1]

CpuProgram ==
    LET placed == UNION { p[1] .. (p[1] + Len(p[2]) - 1) : p \in Placements }
    IN  [o \in {x \in placed : PlacedByte(x) # 0} |-> PlacedByte(o)]

CpuImage == Image(2, 0, CpuProgram)

\* the addresses the CPU is entered at: every branch, every flag prefix, the
\* three indirect jumps and the branch at $FFFD
CpuEntries ==
    { \h8000 + p[1] : p \in { q \in Placements : q[2][1] \in DOMAIN OPCODE_TABLE
                                                  /\ q[1] \notin {\h3010, \h7FF0} } }

InitCpu ==
    /\ debug \in BOOLEAN
    /\ Construct(CpuImage)
    /\ \E pc \in CpuEntries : cpu = CPU_new(pc)
    /\ last = NoOp
    /\ steps = 0
    /\ lastw = ArrEmpty
    /\ shadow = ArrEmpty
    /\ nmi_line = FALSE

NextCpu == CpuStep

SpecCpu == InitCpu /\ [][NextCpu]_vars

----------------------------------------------------------------------------
(* Properties of the PPU status register, the dot clock and the NMI query. *)

StatusReadStep == last'.op = "read" /\ last'.addr = \h2002 /\ steps' = steps + 1
CtrlWriteStep == last'.op = "write" /\ last'.addr = \h2000 /\ steps' = steps + 1

\* C1: a read of PPUSTATUS ($2002) returns the status byte as it was before
\* the read and leaves the VBlank bit and write_toggle clear; on a fresh PPU
\* the first read has bit 7 set, and a read that immediately follows a read
\* has bit 7 clear.
C1_StatusRead ==
    [][ StatusReadStep =>
          /\ last'.ret = ppu.status
          /\ ppu'.status < 128
          /\ ppu'.write_toggle = FALSE
          /\ (ppu = PPU_new => last'.ret >= 128)
          /\ ((last.op = "read" /\ last.addr = \h2002) => last'.ret < 128) ]_vars

\* C1 witness: a PPUSTATUS read that followed an earlier one (bit 7 read back
\* clear) after PPUSCROLL / PPUADDR writes had been made.
C1_Witness ==
    /\ last.op = "read" /\ last.addr = \h2002 /\ last.ret < 128
    /\ ppu.status < 128 /\ ~ppu.write_toggle
    /\ ppu.addr_hi # 0
    /\ steps >= 3

\* C2: driven by clock() alone from a fresh PPU, the VBlank flag is set
\* exactly on scanlines 241..260 and clear exactly on 261 and 0..240.
C2_VBlankWindow ==
    /\ ppu.scanline \in 0 .. 261
    /\ (ppu.status >= 128) <=> (ppu.scanline >= 241 /\ ppu.scanline <= 260)

\* C2 witness: the clock has wrapped the frame and come back into scanline
\* 241 with VBlank set again.
C2_Witness == ppu.frame = 1 /\ ppu.scanline = 241 /\ ppu.status >= 128

\* C3: the NMI query is true iff the VBlank flag and PPUCTRL bit 7 are both
\* set; writing $2000=0x80 with VBlank set makes it true, and writing
\* $2000=0x00 makes it false and leaves the VBlank flag as it was.
C3_NmiGating ==
    /\ [](nmi_occurred(ppu) <=> (ppu.status >= 128 /\ ppu.ctrl >= 128))
    /\ [][ CtrlWriteStep =>
             /\ ppu'.status = ppu.status
             /\ ((last'.val = \h80 /\ ppu.status >= 128) => nmi_occurred(ppu'))
             /\ (last'.val = \h00 => ~nmi_occurred(ppu')) ]_vars

\* C3 witness: NMI was enabled and then disabled again by a PPUCTRL write
\* while the VBlank flag stayed set.
C3_Witness ==
    /\ last.op = "write" /\ last.addr = \h2000 /\ last.val = \h00
    /\ ppu.status >= 128 /\ ~nmi_occurred(ppu)
    /\ steps >= 2

----------------------------------------------------------------------------
(* Properties of the NES bus and the cartridge.                            *)

\* addresses the bus properties are evaluated at
UnmappedProbe == {\h4000, \h4001, \h4017, \h4FFF, \h5000, \h5FFF}
RomProbe == {\h8000, \h8001, \hBFFF, \hC000, \hFFFE, \hFFFF}

BusStep(o) == last'.op = o /\ steps' = steps + 1

\* C6 as claimed: outside the PPU window, a read at an address returns the
\* value of the last write to that same address.
C6_ReadsLastWrite ==
    \A a \in DOMAIN lastw :
        (a < \h2000 \/ a > \h3FFF) =>
            (~ReadNow(a).panic /\ ReadNow(a).ret = lastw[a])

\* C6 as amended: outside $2000-$5FFF, a read at an address returns the
\* value of the last completed write to that address or to a mirror of it.
C6_ReadsLastWriteToCell ==
    \A a \in DOMAIN shadow :
        (a < \h2000 \/ a > \h5FFF) =>
            (~ReadNow(a).panic /\ ReadNow(a).ret = shadow[a])

\* C6 witness: a RAM address was written, then one of its mirrors was written
\* with another byte, and a read at the first address returned the later byte.
C6_Witness ==
    /\ last.op = "read" /\ last.addr \in DOMAIN lastw /\ last.addr < \h2000
    /\ lastw[last.addr] # shadow[last.addr]
    /\ last.ret = shadow[last.addr]

\* the outcome of the bus access a step has just made
StepOutcome == BusOutcome(Bus(ram', cart', ppu'), last'.ret, panicked')

\* a & 0x07FF in RAM, 0x2000 | (a & 7) in the PPU window
Mirrored(a) == IF a < 8192 THEN a % 2048 ELSE 8192 + (a % 8)

\* C7: an access at a in $0000-$1FFF behaves exactly as the same access at
\* a & 0x07FF, and an access at a in $2000-$3FFF exactly as the same access at
\* 0x2000 | (a & 7).
C7_Mirroring ==
    [][ /\ (BusStep("read") /\ last'.addr < \h4000) =>
              \E st \in StoreChoices :
                  StepOutcome = NesBus_read(BusNow, Mirrored(last'.addr), debug, st)
        /\ (BusStep("write") /\ last'.addr < \h4000) =>
              StepOutcome = NesBus_write(BusNow, Mirrored(last'.addr), last'.val, debug)
      ]_vars

\* C7 witness: RAM holds a byte stored through the mirror address $1FFF and
\* a write at $3FFF, a mirror of PPUDATA, has advanced the VRAM address.
C7_Witness ==
    /\ ArrGet(ram, 2047) # 0
    /\ last.op = "write" /\ last.addr = \h3FFF
    /\ ppu.vram_addr = 1

\* C8: bus reads and writes complete without faulting for every address, and
\* read16(addr) completes and returns read(addr) | (read(addr+1) << 8).
C8_BusTotal ==
    /\ ~panicked
    /\ (last.op = "read16" /\ last.addr \notin \h1FFF .. \h3FFF) =>
          last.ret = ReadNow(last.addr).ret + 256 * ReadNow((last.addr + 1) % 65536).ret

\* the byte the image holds for a PRG-ROM address
ImageByte(a) ==
    LET flags == ArrGet(image.bytes, 6)
        size == ArrGet(image.bytes, 4) * 16384
    IN  ArrGet(image.bytes, PrgStart(flags) + ((a - 32768) % size))

\* C9: a bus write to a PRG-ROM address is an error outcome and PRG-ROM is
\* immutable: after any bus writes a read in $8000-$FFFF returns the byte
\* loaded from the cartridge image.
C9_RomImmutable ==
    /\ [][ (BusStep("write") /\ last'.addr >= \h8000) =>
              (panicked' /\ cart' = cart) ]_vars
    /\ [](cart.prg_len > 0 =>
              \A a \in RomProbe :
                  ~ReadNow(a).panic /\ ReadNow(a).ret = ImageByte(a))

\* C9 witness: after completed writes to RAM and cartridge RAM, a write to a
\* PRG-ROM address of a loaded ROM ended in the error outcome.
C9_Witness ==
    /\ last.op = "write" /\ last.addr >= \h8000 /\ panicked
    /\ cart.prg_len > 0
    /\ cart.cartridge_ram # ArrEmpty

\* C10: in $4000-$5FFF a bus read returns 0 and a bus write is dropped; RAM,
\* cartridge and PPU are unchanged by either access.
C10_UnmappedInert ==
    /\ [][ ((BusStep("read") \/ BusStep("write"))
               /\ last'.addr >= \h4000 /\ last'.addr <= \h5FFF) =>
              /\ last'.ret = 0
              /\ ~panicked'
              /\ <<ram, cart, ppu>>' = <<ram, cart, ppu>> ]_vars
    /\ [](~panicked =>
             \A a \in UnmappedProbe :
                 /\ ReadNow(a) = BusOutcome(BusNow, 0, FALSE)
                 /\ \A v \in BusVals :
                       NesBus_write(BusNow, a, v, debug) = BusOutcome(BusNow, 0, FALSE))

\* C10 witness: a non-zero byte was written to an unmapped address while RAM
\* and the PPU already held state, and the write completed.
C10_Witness ==
    /\ last.op = "write" /\ last.addr >= \h4000 /\ last.addr <= \h5FFF
    /\ last.val # 0 /\ ~panicked
    /\ ram # ArrEmpty
    /\ ppu.ctrl # 0

----------------------------------------------------------------------------
(* Properties of the console.                                              *)

\* the NMI query is true at this instruction boundary and was false at the
\* one before
NmiRose == nmi_occurred(ppu) /\ ~nmi_line

\* the byte at $0100 | s of the stack page after the step
StackAfter(s) == ArrGet(ram', 256 + (s % 256))

\* C4: when the NMI condition rises, then at the next instruction boundary,
\* before the next opcode fetch, the CPU pushes PC and P (B=0, X=1) and loads
\* PC from the vector at $FFFA/$FFFB.
C4_NmiServiced ==
    [][ (BusStep("step") /\ NmiRose) =>
          /\ last'.addr = ReadNow(\hFFFA).ret + 256 * ReadNow(\hFFFB).ret
          /\ StackAfter(cpu.stack_pointer) = cpu.program_counter \div 256
          /\ StackAfter(cpu.stack_pointer + 255) = cpu.program_counter % 256
          /\ StackAfter(cpu.stack_pointer + 254) =
                SetBit(ClearBit(cpu.status, 4), 5) ]_vars

----------------------------------------------------------------------------
(* Properties of the cartridge's PRG-ROM window.                           *)

\* byte i of the PRG-ROM region of the image the cartridge was built from
PrgByte(i) == ArrGet(image.bytes, PrgStart(ArrGet(image.bytes, 6)) + i)

\* C11: with a 16 KiB PRG-ROM a cartridge read at a in $8000-$FFFF returns
\* prg[(a - 0x8000) mod 0x4000], so the read at a in $8000-$BFFF equals the
\* read at a + 0x4000; with a 32 KiB PRG-ROM it returns prg[a - 0x8000].
C11_PrgMapping ==
    \A a \in RomProbe :
        /\ cart.prg_len = 16384 =>
              /\ Cartridge_read(cart, a) =
                    [ret |-> PrgByte((a - 32768) % 16384), panic |-> FALSE]
              /\ a < \hC000 => Cartridge_read(cart, a) = Cartridge_read(cart, a + 16384)
        /\ cart.prg_len = 32768 =>
              Cartridge_read(cart, a) = [ret |-> PrgByte(a - 32768), panic |-> FALSE]

\* C11 witness: a bus read at $FFFF of the 16 KiB cartridge returned the last
\* byte of its single bank.
C11_Witness ==
    /\ cart.prg_len = 16384
    /\ last.op = "read" /\ last.addr = \hFFFF /\ last.ret = \h11 /\ ~panicked

----------------------------------------------------------------------------
(* Properties of the PPU address and data ports.                           *)

\* the bytes written to PPUADDR
AddrProbe == {\h04, \h80}

\* the PPU after a PPUSTATUS read followed by the writes h, l to PPUADDR
AfterStatusAddr(p, h, l) ==
    cpu_write(cpu_write(cpu_read(p, \h2002, debug).ppu, \h2006, h, debug).ppu,
              \h2006, l, debug).ppu

\* C12: after any history of register accesses, a PPUSTATUS read followed by
\* two PPUADDR writes h then l leaves vram_addr = (h << 8) | l and
\* write_toggle clear.
C12_AddrLatch ==
    ~panicked =>
        \A h \in AddrProbe, l \in AddrProbe :
            LET p == AfterStatusAddr(ppu, h, l)
            IN  p.vram_addr = h * 256 + l /\ p.write_toggle = FALSE

\* C12 witness: a PPUSCROLL write left the toggle set, PPUSTATUS was read, and
\* the PPUADDR writes $04 then $80 that followed gave vram_addr = $0480.
C12_Witness ==
    /\ steps = 4
    /\ last.op = "write" /\ last.addr = \h2006 /\ last.val = \h80
    /\ ppu.scroll_x # 0 /\ ppu.status < 128
    /\ ppu.vram_addr = \h0480 /\ ~ppu.write_toggle

\* C16: an OAMDATA ($2004) read returns OAM[cursor] and leaves the cursor and
\* OAM (and the rest of the PPU) as they were; an OAMDATA write stores the
\* byte at OAM[cursor], changes no other OAM cell, and sets the cursor to
\* (cursor + 1) mod 256.  (Cells outside both domains hold 0 before and after.)
C16_OamData ==
    [][ /\ (last'.op = "read" /\ last'.addr = \h2004 /\ steps' = steps + 1) =>
              /\ last'.ret = ArrGet(ppu.oam, ppu.oam_addr)
              /\ ppu' = ppu
              /\ ~panicked'
        /\ (last'.op = "write" /\ last'.addr = \h2004 /\ steps' = steps + 1) =>
              /\ ArrGet(ppu'.oam, ppu.oam_addr) = last'.val
              /\ \A i \in (DOMAIN ppu.oam \cup DOMAIN ppu'.oam) \ {ppu.oam_addr} :
                    ArrGet(ppu'.oam, i) = ArrGet(ppu.oam, i)
              /\ ppu'.oam_addr = (ppu.oam_addr + 1) % 256
              /\ ~panicked'
      ]_vars

\* C16 witness: with the cursor at $FF a byte was written (the cursor wrapped
\* to 0), the cursor was set back to $FF, and an OAMDATA read returned the byte.
C16_Witness ==
    /\ last.op = "read" /\ last.addr = \h2004 /\ last.ret = \h80
    /\ ppu.oam_addr = \hFF
    /\ ArrGet(ppu.oam, 255) = \h80

\* the registers of the PPU that can only be written
WriteOnlyRegs == {\h2000, \h2001, \h2003, \h2005, \h2006}

\* C17: a read of PPUCTRL, PPUMASK, OAMADDR, PPUSCROLL or PPUADDR returns 0
\* and leaves the whole PPU state unchanged; a write of any value to
\* PPUSTATUS leaves the whole PPU state unchanged.
C17_WriteOnlyReadOnly ==
    [][ /\ (last'.op = "read" /\ last'.addr \in WriteOnlyRegs /\ steps' = steps + 1) =>
              (last'.ret = 0 /\ ppu' = ppu /\ ~panicked')
        /\ (last'.op = "write" /\ last'.addr = \h2002 /\ steps' = steps + 1) =>
              (ppu' = ppu /\ ~panicked')
      ]_vars

\* C17 witness: PPUSCROLL was read while the write toggle was set and VBlank
\* still latched; the read returned 0 and the toggle is still set.
C17_Witness ==
    /\ last.op = "read" /\ last.addr = \h2005 /\ last.ret = 0
    /\ ppu.write_toggle /\ ppu.status >= 128 /\ ppu.scroll_x # 0

----------------------------------------------------------------------------
(* The PPU address and data ports alone: PPUCTRL, PPUADDR and PPUDATA      *)
(* accesses on a fresh PPU, long enough to store a byte, set the address   *)
(* again and read it back.                                                 *)

\* the bytes written to PPUADDR, to PPUDATA and to PPUCTRL
VramAddrBytes == {\h00, \h20, \h3F, \h60, \hFF}
VramDataBytes == {\h5A}
VramCtrlBytes == {\h04}

InitVram == InitPpu

AddrWrite ==
    /\ ~panicked
    /\ steps < MaxVramOps
    /\ \E v \in VramAddrBytes :
          PpuAccess("write", \h2006, v, cpu_write(ppu, \h2006, v, debug))

DataWrite ==
    /\ ~panicked
    /\ steps < MaxVramOps
    /\ \E v \in VramDataBytes :
          PpuAccess("write", \h2007, v, cpu_write(ppu, \h2007, v, debug))

DataRead ==
    /\ ~panicked
    /\ steps < MaxVramOps
    /\ PpuAccess("read", \h2007, 0, cpu_read(ppu, \h2007, debug))

CtrlWrite ==
    /\ ~panicked
    /\ steps < MaxVramOps
    /\ \E v \in VramCtrlBytes :
          PpuAccess("write", \h2000, v, cpu_write(ppu, \h2000, v, debug))

NextVram == AddrWrite \/ DataWrite \/ DataRead \/ CtrlWrite

SpecVram == InitVram /\ [][NextVram]_vars

DataReadStep == last'.op = "read" /\ last'.addr = \h2007 /\ steps' = steps + 1
DataWriteStep == last'.op = "write" /\ last'.addr = \h2007 /\ steps' = steps + 1

\* C13: for every v whose 14-bit mirror lies below $3F00, a PPUDATA read
\* returns the byte the read buffer held before the read and refills the
\* buffer with the VRAM byte at v.
C13_BufferedRead ==
    [][ (DataReadStep /\ LowBits(ppu.vram_addr, 14) < \h3F00) =>
          /\ ~panicked'
          /\ last'.ret = ppu.data_buffer
          /\ ppu'.data_buffer = read_vram(ppu, ppu.vram_addr) ]_vars

\* the nametable byte that lies underneath the palette address v
NametableUnder(p, v) == ArrGet(p.vram, LowBits(v - \h3000, 11))

\* C14: when v is in $3F00-$3FFF, a PPUDATA read returns the live palette
\* byte at v and refills the read buffer from the nametable byte mirrored
\* underneath v, not from the palette byte.
C14_PaletteRead ==
    [][ (DataReadStep /\ ppu.vram_addr >= \h3F00 /\ ppu.vram_addr <= \h3FFF) =>
          /\ ~panicked'
          /\ last'.ret = ArrGet(ppu.palette_ram, LowBits(ppu.vram_addr - \h3F00, 5))
          /\ ppu'.data_buffer = NametableUnder(ppu, ppu.vram_addr) ]_vars

\* C15: for every 16-bit v a PPUDATA write stores the byte at VRAM address v
\* and then advances v by 1 or by 32 (PPUCTRL bit 2), completing without
\* overflow of the 16-bit cell.
C15_DataWriteAdvance ==
    [][ DataWriteStep =>
          /\ ~panicked'
          /\ ppu' = [write_vram(ppu, ppu.vram_addr, last'.val)
                        EXCEPT !.vram_addr = U16(ppu.vram_addr + VramStep(ppu))] ]_vars

----------------------------------------------------------------------------
(* Properties of the CPU's instruction step.                               *)

\* the machine a step has just left
MachineAfter == Machine(cpu', Bus(ram', cart', ppu'), panicked')

\* a machine with its pending cycles spent
settle(m) ==
    [m EXCEPT !.cpu.total_cycles = @ + m.cpu.remaining_cycles,
              !.cpu.remaining_cycles = 0]

\* C18: after every CPU::step that returns, remaining_cycles is 0 and the
\* step has fetched and executed exactly one instruction: the machine is the
\* one a single fetch / decode / execute leaves once its cycles are spent.
C18_StepIsOneInstruction ==
    [][ (BusStep("step") /\ ~panicked') =>
          /\ cpu'.remaining_cycles = 0
          /\ \E st \in StoreChoices :
                MachineAfter = settle(fetch_execute(Machine(cpu, BusNow, FALSE), debug, st))
      ]_vars

\* C18 witness: SEC and then a BCS into the next page have been stepped
\* (2 + 4 cycles), and no cycle is pending.
C18_Witness ==
    /\ steps = 2 /\ last.op = "step" /\ last.val = \hB0
    /\ cpu.total_cycles = 6 /\ cpu.remaining_cycles = 0
    /\ ~panicked

\* the operands of the instruction at the program counter
OperandByte(i) == ReadNow(U16(cpu.program_counter + i)).ret

\* the instruction a branch step executes, the address of the instruction
\* after it, whether its condition holds, and its target
BranchOp == OPCODE_TABLE[last'.val]
BranchNext == U16(cpu.program_counter + 2)
BranchCond == Bit(cpu.status, BranchFlag[BranchOp.name]) = BranchOn[BranchOp.name]
BranchTarget ==
    (BranchNext + (IF OperandByte(1) >= 128 THEN OperandByte(1) - 256 ELSE OperandByte(1)))
        % 65536

BranchStep ==
    /\ BusStep("step")
    /\ last'.val \in {BranchOpcodes[k] : k \in 1 .. 8}

\* what the branch step must leave
BranchOutcome ==
    /\ ~panicked'
    /\ IF BranchCond
       THEN /\ cpu'.program_counter = BranchTarget
            /\ cpu'.total_cycles - cpu.total_cycles =
                  BranchOp.cycles
                  + (IF BranchTarget \div 256 = BranchNext \div 256 THEN 1 ELSE 2)
       ELSE /\ cpu'.program_counter = BranchNext
            /\ cpu'.total_cycles - cpu.total_cycles = BranchOp.cycles

\* C19: for every branch instruction, a false condition leaves PC at the next
\* instruction with no extra cycle; a taken branch sets PC to the next
\* instruction's address plus the sign-extended displacement (16-bit wrap)
\* and costs 1 extra cycle when the target is in the page of the next
\* instruction and 2 when it is in another page.
C19_Branch == [][ BranchStep => BranchOutcome ]_vars

\* the pointer of the JMP (ptr) at the program counter, and the target the
\* page-wrap rule gives: low byte from ptr, high byte from the same page
IndirectPtr == OperandByte(1) + 256 * OperandByte(2)
IndirectTarget ==
    ReadNow(IndirectPtr).ret
    + 256 * ReadNow((IndirectPtr - (IndirectPtr % 256)) + ((IndirectPtr + 1) % 256)).ret

\* C20: for every 16-bit ptr, JMP (ptr) takes the low byte of its target
\* from ptr and the high byte from (ptr & 0xFF00) | ((ptr + 1) & 0xFF).
C20_IndirectPageWrap ==
    [][ (BusStep("step") /\ last'.val = \h6C) =>
          (~panicked' /\ cpu'.program_counter = IndirectTarget) ]_vars

----------------------------------------------------------------------------
(* The CPU on programs in CPU RAM: CPU::step on a console whose RAM was    *)
(* loaded through the bus with short programs and their data, entered at   *)
(* one of the programs.                                                    *)

\* the operands of the ADC programs
AdcBytes == <<\h00, \h01, \h50, \h7F, \h80, \hFF>>

\* where the ADC program for the i-th accumulator, the j-th operand and
\* carry c stands
AdcSite(i, j, c) == \h0400 + 8 * ((i - 1) * 12 + (j - 1) * 2 + c)

\* LDA #a ; SEC or NOP ; ADC #m
AdcProgram(i, j, c) ==
    <<\hA9, AdcBytes[i], IF c = 1 THEN \h38 ELSE \hEA, \h69, AdcBytes[j]>>

\* the accumulators of the SBC programs, and the zero-page cells that hold
\* their operands ($FF, $03 and $FE)
SbcBytes == <<\h00, \h50, \h80, \hFF>>
SbcCells == <<\h00, \h01, \h7F>>

SbcSite(i, j, c) == \h0640 + 8 * ((i - 1) * 6 + (j - 1) * 2 + c)

\* LDA #a ; SEC or NOP ; SBC zp
SbcProgram(i, j, c) ==
    <<\hA9, SbcBytes[i], IF c = 1 THEN \h38 ELSE \hEA, \hE5, SbcCells[j]>>

\* the opcodes whose handler is a todo!, with an operand
TodoPrograms ==
    << <<\h6B, \h01>>, <<\h8B, \h01>>, <<\hCB, \h01>>, <<\h9F, \h00, \h03>>,
       <<\h9E, \h00, \h03>>, <<\h9C, \h00, \h03>>, <<\h9B, \h00, \h03>>,
       <<\hBB, \h00, \h03>> >>

\* the programs that index the zero page, use the stack and call a
\* subroutine, each in a 16-byte slot from $0200 on
SlotPrograms ==
    << <<\hA2, \h01, \hB5, \hFF>>,      \* LDX #$01 ; LDA $FF,X
       <<\hA2, \hFF, \hB5, \h80>>,      \* LDX #$FF ; LDA $80,X
       <<\hA0, \h01, \hB6, \hFF>>,      \* LDY #$01 ; LDX $FF,Y
       <<\hA2, \h01, \hA1, \hFE>>,      \* LDX #$01 ; LDA ($FE,X)
       <<\hA2, \h01, \hA1, \hFF>>,      \* LDX #$01 ; LDA ($FF,X)
       <<\hA0, \h02, \hB1, \hFF>>,      \* LDY #$02 ; LDA ($FF),Y
       <<\hA0, \h02, \hB1, \h7F>>,      \* LDY #$02 ; LDA ($7F),Y
       <<\h68, \hAA, \hB5, \hFF>>,      \* PLA ; TAX ; LDA $FF,X
       <<\h68, \hAA, \hA1, \hFE>>,      \* PLA ; TAX ; LDA ($FE,X)
       <<\h68, \hA8, \hB1, \hFF>>,      \* PLA ; TAY ; LDA ($FF),Y
       <<\h68, \hA8, \hB6, \hFF>>,      \* PLA ; TAY ; LDX $FF,Y
       <<\h68, \h48, \h68>>,            \* PLA ; PHA ; PLA
       <<\h68, \h68, \h68>>,            \* PLA ; PLA ; PLA
       <<\h9A, \h48, \h68>>,            \* TXS ; PHA ; PLA
       <<\h68, \h9A, \h48>>,            \* PLA ; TXS ; PHA
       <<\h48, \h48, \h68>>,            \* PHA ; PHA ; PLA
       <<\h20, \h80, \h03>>,            \* JSR $0380
       <<\hEA, \hEA, \hEA, \hEA, \hEA, \hEA, \hEA, \hEA,
         \hEA, \hEA, \hEA, \hEA, \hEA, \h20, \hF0, \h03>> >>
                                        \* JSR $03F0 at $031D

\* the programs that pull and push the status byte, each in a 16-byte slot
\* from $0320 on
FlagPrograms ==
    << <<\h28>>,                        \* PLP
       <<\hA2, \hFF, \h9A, \h28>>,      \* LDX #$FF ; TXS ; PLP
       <<\hEA, \h00, \h28>>,            \* NOP ; BRK ; PLP
       <<\hEA, \h00, \h40>>,            \* NOP ; BRK ; RTI
       <<\h08, \h28, \h68>>,            \* PHP ; PLP ; PLA
       <<\h40, \h28>>,                  \* RTI ; PLP
       <<\h38, \h08, \h68>>,            \* SEC ; PHP ; PLA
       <<\h9A, \h28, \h08>>,            \* TXS ; PLP ; PHP
       <<\h9A, \h40>> >>                \* TXS ; RTI

FlagSite(k) == IF k <= 6 THEN \h0320 + 16 * (k - 1) ELSE \h0390 + 16 * (k - 7)

\* addresses in RAM and the bytes loaded there: the programs, the
\* subroutines (an RTS each) and the data in the zero page and the stack page
RamPlacements ==
    { <<AdcSite(i, j, c), AdcProgram(i, j, c)>> : i \in 1 .. 6, j \in 1 .. 6, c \in 0 .. 1 }
    \cup { <<SbcSite(i, j, c), SbcProgram(i, j, c)>> : i \in 1 .. 4, j \in 1 .. 3, c \in 0 .. 1 }
    \cup { <<\h0200 + 16 * (k - 1), SlotPrograms[k]>> : k \in 1 .. Len(SlotPrograms) }
    \cup { <<FlagSite(k), FlagPrograms[k]>> : k \in 1 .. Len(FlagPrograms) }
    \cup { <<\h0700 + 4 * (k - 1), TodoPrograms[k]>> : k \in 1 .. Len(TodoPrograms) }
    \cup { <<\h0380, <<\h60>> >>, <<\h03F0, <<\h60>> >>,
           <<\h0000, <<\hFF, \h03>> >>, <<\h007F, <<\hFE>> >>, <<\h00FF, <<\hFF>> >>,
           <<\h0100, <<\h77>> >>, <<\h01FE, <<\h01, \h02>> >> }

RamByte(o) == LET p == CHOOSE q \in RamPlacements : Covers(q, o) IN p[2][o - p[1] + 1]

\* the RAM after the loads
RamProgram ==
    LET placed == UNION { p[1] .. (p[1] + Len(p[2]) - 1) : p \in RamPlacements }
    IN  [o \in {x \in placed : RamByte(x) # 0} |-> RamByte(o)]

\* the addresses the CPU is entered at: the first byte of every program
RamEntries ==
    { AdcSite(i, j, c) : i \in 1 .. 6, j \in 1 .. 6, c \in 0 .. 1 }
    \cup { SbcSite(i, j, c) : i \in 1 .. 4, j \in 1 .. 3, c \in 0 .. 1 }
    \cup { \h0200 + 16 * (k - 1) : k \in 1 .. (Len(SlotPrograms) - 1) }
    \cup { FlagSite(k) : k \in 1 .. Len(FlagPrograms) }
    \cup { \h031D }
    \cup { \h0700 + 4 * (k - 1) : k \in 1 .. Len(TodoPrograms) }

\* NesBus::new(Cartridge::from_rom(buffer)) followed by the bus writes that
\* load `contents` into CPU RAM
LoadRam(buffer, contents) ==
    /\ image = buffer
    /\ panicked = from_rom(buffer).panic
    /\ ram = contents
    /\ cart = from_rom(buffer).cart
    /\ ppu = PPU_new

InitRam ==
    /\ debug \in BOOLEAN
    /\ LoadRam(Image(1, 0, Prg16), RamProgram)
    /\ \E pc \in RamEntries : cpu = CPU_new(pc)
    /\ last = NoOp
    /\ steps = 0
    /\ lastw = ArrEmpty
    /\ shadow = ArrEmpty
    /\ nmi_line = FALSE

NextRam == CpuStep

SpecRam == InitRam /\ [][NextRam]_vars

----------------------------------------------------------------------------
(* CPU::run_until_brk on the program of tests::test_euclid_algo, loaded    *)
(* at $0010 with its two seeds at $00 and $01.  The call is a loop of      *)
(* steps; last.op is "return" once it has returned, and shadow keeps the   *)
(* RAM as it was loaded.                                                   *)

EuclidProgram ==
    <<\hA5, \h00, \h38, \hE5, \h01, \hF0, \h07, \h30, \h08, \h85, \h00,
      \h4C, \h12, \h00, \hA5, \h00, \h00, \hA6, \h00, \hA4, \h01, \h86, \h01,
      \h84, \h00, \h4C, \h10, \h00>>

EuclidSeeds == {1, 2, 3, 20, 30, 127}

\* the RAM after `ram[0x00] = a; ram[0x01] = b` and the copy of the program
EuclidRam(a, b) ==
    (0 :> a) @@ (1 :> b) @@
    [o \in {\h10 + k - 1 : k \in {i \in 1 .. Len(EuclidProgram) : EuclidProgram[i] # 0}}
        |-> EuclidProgram[o - \h10 + 1]]

InitEuclid ==
    /\ debug \in BOOLEAN
    /\ \E a \in EuclidSeeds, b \in EuclidSeeds :
          /\ LoadRam(Image(1, 0, Prg16), EuclidRam(a, b))
          /\ shadow = EuclidRam(a, b)
    /\ cpu = CPU_new(\h0010)
    /\ last = NoOp
    /\ steps = 0
    /\ lastw = ArrEmpty
    /\ nmi_line = FALSE

\* CPU::run_until_brk, one turn of the loop: the condition holds and
\* self.step() is called
RunLoop ==
    /\ last.op # "return"
    /\ ~panicked
    /\ status_lacks_brk(cpu)
    /\ steps < MaxRunSteps
    /\ ReadNow(cpu.program_counter).ret \in DOMAIN OPCODE_TABLE
    /\ \E st \in StoreChoices : CpuStepTo(step(Machine(cpu, BusNow, FALSE), debug, st))
    /\ last' = Op("step", cpu.program_counter, ReadNow(cpu.program_counter).ret, 0)
    /\ steps' = steps + 1
    /\ UNCHANGED <<debug, image, lastw, shadow, nmi_line>>

\* CPU::run_until_brk, the end of the loop: the condition fails and the
\* call returns
RunReturn ==
    /\ last.op # "return"
    /\ ~panicked
    /\ ~status_lacks_brk(cpu)
    /\ last' = Op("return", cpu.program_counter, 0, 0)
    /\ UNCHANGED <<debug, image, ram, cart, ppu, cpu, panicked, steps, lastw,
                   shadow, nmi_line>>

NextEuclid == RunLoop \/ RunReturn

\* the loop can take another turn
CanStep ==
    /\ last.op # "return"
    /\ ~panicked
    /\ status_lacks_brk(cpu)
    /\ steps < MaxRunSteps
    /\ ReadNow(cpu.program_counter).ret \in DOMAIN OPCODE_TABLE

\* the loop is sequential code: a turn that can be taken is taken, and the
\* call returns when the loop ends (weak fairness of both actions, the
\* enabling condition of RunLoop written out as CanStep)
SpecEuclid ==
    /\ InitEuclid /\ [][NextEuclid]_vars
    /\ WF_vars(RunReturn)
    /\ ([]<>(~CanStep) \/ []<><<RunLoop>>_vars)

----------------------------------------------------------------------------
(* CPU::trace on the console: the CPU is constructed at one of a few       *)
(* program counters, PPUADDR is written through the bus, and the CPU is    *)
(* traced.                                                                 *)

TraceEntries == {\h0000, \h2007, \h3FFF, \h8000}

InitTrace ==
    /\ debug \in BOOLEAN
    /\ Construct(Image(1, 0, Prg16))
    /\ \E pc \in TraceEntries : cpu = CPU_new(pc)
    /\ last = NoOp
    /\ steps = 0
    /\ lastw = ArrEmpty
    /\ shadow = ArrEmpty
    /\ nmi_line = FALSE

\* the console after a trace that left t
TraceTo(t) ==
    /\ ram' = t.bus.cpu_vram
    /\ cart' = t.bus.cartridge
    /\ ppu' = t.bus.ppu
    /\ panicked' = t.panic

\* CPU::trace on the console
Trace ==
    /\ ~panicked
    /\ steps < MaxTraceOps
    /\ ReadNow(cpu.program_counter).ret \in DOMAIN OPCODE_TABLE
    /\ \E st \in StoreChoices : TraceTo(trace(Machine(cpu, BusNow, FALSE), debug, st))
    /\ last' = Op("trace", cpu.program_counter, ReadNow(cpu.program_counter).ret, 0)
    /\ steps' = steps + 1
    /\ UNCHANGED <<debug, image, cpu, lastw, shadow, nmi_line>>

\* a write of PPUADDR between traces
TraceAddrWrite == steps < MaxTraceOps /\ AddrWrite

NextTrace == Trace \/ TraceAddrWrite

SpecTrace == InitTrace /\ [][NextTrace]_vars

----------------------------------------------------------------------------
(* Properties of the CPU on the programs in RAM.                           *)

\* the table entry of the instruction a step executes
Stepped == OPCODE_TABLE[last'.val]

\* the machine before the step, with the program counter past the opcode
PastOpcode ==
    Machine([cpu EXCEPT !.program_counter = U16(@ + 1)], BusNow, FALSE)

\* the byte of page zero at a, cut to the page
ZpByte(a) == ArrGet(ram, a % 256)

ZpModes == {"ZeroPageX", "ZeroPageY", "IndirectX", "IndirectY"}

\* the effective address of the instruction at the program counter
ZpEffective ==
    CASE Stepped.addressing = "ZeroPageX" -> (OperandByte(1) + cpu.x_register) % 256
      [] Stepped.addressing = "ZeroPageY" -> (OperandByte(1) + cpu.y_register) % 256
      [] Stepped.addressing = "IndirectX" ->
            ZpByte(OperandByte(1) + cpu.x_register)
            + 256 * ZpByte(OperandByte(1) + cpu.x_register + 1)
      [] Stepped.addressing = "IndirectY" ->
            (ZpByte(OperandByte(1)) + 256 * ZpByte(OperandByte(1) + 1)
               + cpu.y_register) % 65536

\* C21: zero-page addressing never leaves page zero.  For ZeroPage,X and
\* ZeroPage,Y the effective address is (operand + index) & 0xFF; for ($nn,X)
\* the pointer bytes come from (nn+X) & 0xFF and (nn+X+1) & 0xFF; for ($nn),Y
\* they come from nn and (nn+1) & 0xFF and Y is added with 16-bit wrap.  The
\* step resolves exactly that address, and a load that the build executes
\* loads the byte there (LDA $FF,X with X = 1 loads the byte at $00).
C21_ZeroPageWrap ==
    [][ (BusStep("step") /\ Stepped.addressing \in ZpModes) =>
          /\ resolve_address(PastOpcode, Stepped.addressing, debug, TRUE).address
                = Absolute(ZpEffective)
          /\ Stepped.addressing \in {"ZeroPageX", "ZeroPageY"} => ZpEffective < 256
          /\ debug =>
                (IF Stepped.name = "LDA" THEN cpu'.accumulator ELSE cpu'.x_register)
                   = ReadNow(ZpEffective).ret
      ]_vars

\* C21 witness: LDX #$01 and LDA $FF,X were stepped; the accumulator holds
\* the byte of $0000 ($FF), not the byte of $0100 ($77).
C21_Witness ==
    /\ steps = 2 /\ last.op = "step" /\ last.val = \hB5
    /\ cpu.x_register = 1 /\ cpu.accumulator = \hFF /\ ~panicked

\* a byte as a signed 8-bit number
Signed(b) == IF b >= 128 THEN b - 256 ELSE b

\* the byte the instruction at the program counter operates on
OperandValue ==
    ReadNow(resolve_address(PastOpcode, Stepped.addressing, debug, TRUE).address.addr).ret

\* what ADC must leave for accumulator a, operand m and carry c
AdcOutcome(a, m, c) ==
    /\ cpu'.accumulator = (a + m + c) % 256
    /\ (Bit(cpu'.status, 0) = 1) <=> (a + m + c > 255)
    /\ (Bit(cpu'.status, 6) = 1) <=> (Signed(a) + Signed(m) + c \notin -128 .. 127)
    /\ (Bit(cpu'.status, 1) = 1) <=> ((a + m + c) % 256 = 0)
    /\ Bit(cpu'.status, 7) = Bit((a + m + c) % 256, 7)

\* C22: for every accumulator A, operand M and carry-in C, ADC leaves
\* A' = (A + M + C) mod 256, C set iff the sum exceeds 255, V set iff the
\* signed sum overflows, Z set iff A' is 0, and N equal to bit 7 of A'.
C22_Adc ==
    [][ (BusStep("step") /\ Stepped.name = "ADC") =>
          AdcOutcome(cpu.accumulator, OperandValue, Bit(cpu.status, 0)) ]_vars

\* the bytes pushed to probe a push followed by a pop
StackProbe == {\h00, \h5A, \hFF}

\* a push of v followed by a pop, on the machine of the current state
PushPop(v) == pop_stack(push_stack(Machine(cpu, BusNow, FALSE), v, debug), debug, TRUE)

\* C23: every stack access stays in page $01.  A push writes the byte at
\* $0100 | S and then sets S to (S - 1) mod 256; a pop sets S to
\* (S + 1) mod 256 and then reads $0100 | S; a push followed by a pop returns
\* the byte pushed and restores S, also across the wraps at S = $00 and
\* S = $FF.
C23_StackPage ==
    [][ BusStep("step") =>
          /\ Stepped.name = "PHA" =>
                /\ ram' = ArrSet(ram, \h0100 + cpu.stack_pointer, cpu.accumulator)
                /\ cpu'.stack_pointer = (cpu.stack_pointer + 255) % 256
          /\ Stepped.name = "PLA" =>
                /\ cpu'.stack_pointer = (cpu.stack_pointer + 1) % 256
                /\ cpu'.accumulator = ArrGet(ram, \h0100 + cpu'.stack_pointer)
                /\ ram' = ram
          /\ \A v \in StackProbe :
                /\ PushPop(v).ret = v
                /\ PushPop(v).m.cpu.stack_pointer = cpu.stack_pointer
                /\ PushPop(v).m.bus.cpu_vram = ArrSet(ram, \h0100 + cpu.stack_pointer, v)
                /\ ~PushPop(v).m.panic
      ]_vars

\* C23 witness: TXS set S to $00, PHA pushed A = $00 over the $77 at $0100
\* and wrapped S to $FF, PLA wrapped S back to $00 and popped the $00.
C23_Witness ==
    /\ steps = 3 /\ last.op = "step" /\ last.val = \h68
    /\ cpu.stack_pointer = 0 /\ cpu.accumulator = 0
    /\ ArrGet(ram, \h0100) = 0 /\ ~panicked

\* what a JSR at p must leave: the return address p + 2 on the stack, high
\* byte first, S lowered by two and PC at the target
JsrOutcome(p, target) ==
    /\ ~panicked'
    /\ cpu'.program_counter = target
    /\ ArrGet(ram', \h0100 + cpu.stack_pointer) = ((p + 2) % 65536) \div 256
    /\ ArrGet(ram', \h0100 + ((cpu.stack_pointer + 255) % 256)) = (p + 2) % 256
    /\ cpu'.stack_pointer = (cpu.stack_pointer + 254) % 256

\* C24: JSR at address p pushes p + 2 (high byte, then low byte) and sets PC
\* to its target; the RTS that follows pops that address, sets PC to p + 3
\* and brings S back to its value before the JSR.
C24_JsrRts ==
    [][ BusStep("step") =>
          /\ Stepped.name = "JSR" =>
                JsrOutcome(cpu.program_counter, OperandByte(1) + 256 * OperandByte(2))
          /\ (Stepped.name = "RTS" /\ last.op = "step" /\ last.val = \h20) =>
                /\ ~panicked'
                /\ cpu'.program_counter = (last.addr + 3) % 65536
                /\ cpu'.stack_pointer = (cpu.stack_pointer + 2) % 256
      ]_vars

\* C27: a step that executes one of ARR, XAA, AHX, SHX, SHY, TAS, LAS, AXS
\* ends in an error the caller sees (the step panics); execution does not
\* go on as if the instruction had been carried out.
C27_UnimplementedFails ==
    [][ (BusStep("step") /\ Stepped.name \in Unimplemented) => panicked' ]_vars

\* C27 witness: the step entered at the AHX $0300,Y of $070C has panicked.
C27_Witness ==
    /\ steps = 1 /\ last.op = "step" /\ last.addr = \h070C /\ last.val = \h9F
    /\ panicked

----------------------------------------------------------------------------
(* Properties of the PPUSCROLL / PPUADDR write latch.                      *)

PpuWriteStep(a) == last'.op = "write" /\ last'.addr = a /\ steps' = steps + 1

\* C29: with write_toggle clear, a write of h to PPUADDR loads the high byte
\* of v (v >> 8 = h right after it); with write_toggle set, a write loads the
\* low byte of v.
C29_AddrBytesIntoV ==
    [][ PpuWriteStep(\h2006) =>
          IF ~ppu.write_toggle
          THEN ppu'.vram_addr \div 256 = last'.val
          ELSE ppu'.vram_addr % 256 = last'.val ]_vars

\* C30: write_toggle is one latch shared by $2005 and $2006: a write to
\* either flips it, a write to any other register leaves it as it was, and a
\* PPUADDR write that follows one PPUSCROLL write (made with the toggle
\* clear) is taken as the second, low-byte write.
C30_SharedLatch ==
    [][ /\ (PpuWriteStep(\h2005) \/ PpuWriteStep(\h2006)) =>
              ppu'.write_toggle = ~ppu.write_toggle
        /\ (\E a \in PpuRegs \ {\h2005, \h2006} : PpuWriteStep(a)) =>
              ppu'.write_toggle = ppu.write_toggle
        /\ (PpuWriteStep(\h2006) /\ last.op = "write" /\ last.addr = \h2005
               /\ ppu.write_toggle) =>
              /\ ppu'.addr_lo = last'.val
              /\ ppu'.addr_hi = ppu.addr_hi
              /\ ppu'.vram_addr = ppu.addr_hi * 256 + last'.val
      ]_vars

\* C30 witness: one PPUSCROLL write and then one PPUADDR write were made on a
\* fresh PPU; the PPUADDR byte went to the low byte and the latch is clear.
C30_Witness ==
    /\ steps = 2 /\ last.op = "write" /\ last.addr = \h2006 /\ last.val = \h80
    /\ ppu.scroll_x = \h04 /\ ppu.addr_lo = \h80 /\ ppu.addr_hi = 0
    /\ ppu.vram_addr = \h80 /\ ~ppu.write_toggle

----------------------------------------------------------------------------
(* Properties of CPU::run_until_brk.                                       *)

\* the last step executed a BRK
BrkExecuted == last.op = "step" /\ last.val = \h00 /\ ~panicked

\* C25: run_until_brk executes whole instructions until a BRK has been
\* executed and then returns: it returns only right after a BRK, between
\* instructions and with the B flag set; no instruction is executed after
\* the BRK; and once the BRK is executed the call does return.
C25_RunUntilBrk ==
    /\ [][ last'.op = "return" =>
             /\ BrkExecuted
             /\ Bit(cpu'.status, 4) = 1
             /\ cpu'.remaining_cycles = 0 ]_vars
    /\ [][ BrkExecuted => last'.op = "return" ]_vars
    /\ (BrkExecuted ~> last.op = "return")

\* C25 witness: the call has returned from the run on seeds 30 and 20 after
\* more than the nine instructions of a straight run through the program.
C25_Witness ==
    /\ last.op = "return" /\ steps > 9
    /\ ArrGet(shadow, 0) = 30 /\ ArrGet(shadow, 1) = 20
    /\ Bit(cpu.status, 4) = 1

RECURSIVE Gcd(_, _)
Gcd(a, b) == IF b = 0 THEN a ELSE Gcd(b, a % b)

\* C26: with seeds a = mem[$00] and b = mem[$01], both in 1 .. 127, when
\* run_until_brk on the Euclid program has returned the accumulator holds
\* gcd(a, b) (10 for seeds 30 and 20).
C26_EuclidGcd ==
    last.op = "return" => cpu.accumulator = Gcd(ArrGet(shadow, 0), ArrGet(shadow, 1))

----------------------------------------------------------------------------
(* Properties of CPU::trace.                                               *)

\* C28: trace() is pure for every CPU state and program counter, also when
\* the instruction bytes lie in $2000-$3FFF: it returns, and the CPU
\* registers, the memory and the whole PPU state are as before the call.
C28_TracePure ==
    [][ BusStep("trace") =>
          /\ ~panicked'
          /\ cpu' = cpu /\ ram' = ram /\ cart' = cart /\ ppu' = ppu ]_vars

----------------------------------------------------------------------------
(* Further properties of the PPU's VRAM port.                              *)

\* C31: every PPUDATA read, whatever v is (the palette range included),
\* advances v by 1 when PPUCTRL bit 2 is clear and by 32 when it is set.
C31_DataReadAdvance ==
    [][ DataReadStep =>
          /\ ~panicked'
          /\ ppu'.vram_addr = U16(ppu.vram_addr + VramStep(ppu)) ]_vars

\* the addresses at which the cell behind a PPUDATA write is looked for
MirrorProbes ==
    { \h0000, \h1FFF, \h2000, \h203F, \h3000, \h303F, \h6000, \h7000,
      \hA000, \hB03F, \h3F00, \h3F1F, \h3F20, \h3F3F, \h3FE0, \h3FFF,
      \h7F00, \hBF1F, \hFF00, \hFF1F, \hFFFF }

\* a and b agree modulo $4000 and, reduced, are equal, or a nametable address
\* and its image $1000 above, or two palette addresses equal modulo 32
SameVramCell(a, b) ==
    LET ra == a % \h4000
        rb == b % \h4000
    IN  \/ ra = rb
        \/ ra >= \h2000 /\ ra < \h2F00 /\ rb = ra + \h1000
        \/ rb >= \h2000 /\ rb < \h2F00 /\ ra = rb + \h1000
        \/ /\ ra >= \h3F00
           /\ rb >= \h3F00
           /\ ra % 32 = rb % 32

\* C32: a byte written through PPUDATA at v is the byte read_vram finds at
\* every address that selects the same cell as v (equal modulo $4000, the
\* nametable image $1000 above, the palette modulo 32); a write whose reduced
\* address is in $0000-$1FFF changes no PPU memory and a read there yields 0.
C32_VramMirrors ==
    [][ (DataWriteStep /\ ~panicked') =>
          LET v == ppu.vram_addr IN
          /\ \A b \in MirrorProbes :
                SameVramCell(v, b) =>
                   read_vram(ppu', b) =
                      (IF v % \h4000 < \h2000 THEN 0 ELSE last'.val)
          /\ v % \h4000 < \h2000 =>
                /\ ppu'.vram = ppu.vram
                /\ ppu'.palette_ram = ppu.palette_ram
                /\ ppu'.oam = ppu.oam ]_vars

C32_Witness ==
    /\ last.op = "write"
    /\ last.addr = \h2007
    /\ ~panicked
    /\ ppu.vram_addr = \h6001
    /\ read_vram(ppu, \h3000) = last.val
    /\ read_vram(ppu, \hA000) = last.val
    /\ last.val # 0

----------------------------------------------------------------------------
(* Further properties of the dot clock.                                    *)

DotsPerLine == 341
LinesPerFrame == 262

\* the position of the PPU in its frame, in dots
DotPosition(p) == p.scanline * DotsPerLine + p.cycle

ClockStep == last'.op = "clock" /\ ppu' # ppu

\* C33: cycle stays in 0..340 and scanline in 0..261; each clock() moves the
\* dot position on by exactly one, modulo 341 * 262, and frame grows by
\* exactly 1 on the wrap from scanline 261 to scanline 0 and not otherwise.
C33_TimingCounters ==
    /\ [](ppu.cycle \in 0..340 /\ ppu.scanline \in 0..261)
    /\ [][ ClockStep =>
             /\ DotPosition(ppu') =
                   (DotPosition(ppu) + 1) % (DotsPerLine * LinesPerFrame)
             /\ ppu'.frame =
                   (IF ppu.scanline = 261 /\ ppu'.scanline = 0
                    THEN ppu.frame + 1 ELSE ppu.frame) ]_vars

C33_Witness ==
    /\ last.op = "clock"
    /\ ppu.frame = 1
    /\ ppu.scanline = 0
    /\ ppu.cycle = 0

----------------------------------------------------------------------------
(* The dot clock with the registers in use: PPU::clock interleaved with    *)
(* PPU::cpu_read of PPUSTATUS and PPU::cpu_write of PPUCTRL.               *)

MaxRegWrites == 1

\* PPU::cpu_read(0x2002)
VblStatusRead ==
    /\ ~panicked
    /\ LET res == cpu_read(ppu, \h2002, debug) IN
          /\ ppu' = res.ppu
          /\ panicked' = res.panic
          /\ last' = Op("read", \h2002, 0, res.ret)
    /\ UNCHANGED <<debug, image, ram, cart, cpu, steps, lastw, shadow, nmi_line>>

\* PPU::cpu_write(0x2000, 0x80)
VblCtrlWrite ==
    /\ ~panicked
    /\ steps < MaxRegWrites
    /\ PpuAccess("write", \h2000, \h80, cpu_write(ppu, \h2000, \h80, debug))

NextVbl == StepPpu \/ VblStatusRead \/ VblCtrlWrite

SpecVbl == InitClock /\ [][NextVbl]_vars

VBlankSet(p) == Bit(p.status, 7) = 1

\* C34: clock() changes VBlank only on a dot that changes the scanline: it
\* sets it only when the scanline becomes 241 and clears it only when the
\* scanline becomes 261; a flag that is clear (a PPUSTATUS read in scanlines
\* 241..260 cleared it) stays clear over every clock() that does not enter
\* scanline 241.
C34_VBlankEdges ==
    [][ ClockStep =>
          /\ (VBlankSet(ppu') /\ ~VBlankSet(ppu)) =>
                (ppu.scanline = 240 /\ ppu'.scanline = 241)
          /\ (~VBlankSet(ppu') /\ VBlankSet(ppu)) =>
                (ppu.scanline = 260 /\ ppu'.scanline = 261)
          /\ (~VBlankSet(ppu) /\ ~(ppu.scanline = 240 /\ ppu'.scanline = 241)) =>
                ~VBlankSet(ppu') ]_vars

C34_Witness ==
    /\ last.op = "clock"
    /\ ppu.frame = 1
    /\ ppu.scanline = 250
    /\ ~VBlankSet(ppu)

\* the number of clock() calls after which VBlank is set: none when it is
\* set, else the distance to the dot that enters scanline 241
ClocksToVBlank(p) ==
    IF VBlankSet(p) THEN 0
    ELSE LET n == DotsPerLine * LinesPerFrame
         IN  ((241 * DotsPerLine + n - DotPosition(p) - 1) % n) + 1

\* C38: from every reachable state VBlank is set within 341 * 262 calls of
\* clock(), whatever reads of PPUSTATUS and register writes come between: the
\* number of calls still due is at most 341 * 262, each clock() with the flag
\* clear takes one off it, and a register write leaves it alone.  A step that
\* is not a clock() never sets a VBlank flag that is clear.
C38_VBlankRecurs ==
    /\ [](ClocksToVBlank(ppu) <= DotsPerLine * LinesPerFrame)
    /\ [][ (ClockStep /\ ~VBlankSet(ppu)) =>
              ClocksToVBlank(ppu') = ClocksToVBlank(ppu) - 1 ]_vars
    /\ [][ (last'.op = "write") =>
              ClocksToVBlank(ppu') = ClocksToVBlank(ppu) ]_vars
    /\ [][ (last'.op # "clock" /\ ~VBlankSet(ppu)) => ~VBlankSet(ppu') ]_vars

C38_Witness ==
    /\ last.op = "clock"
    /\ ppu.frame = 1
    /\ ppu.scanline = 241
    /\ ppu.cycle = 0
    /\ ppu.ctrl = \h80
    /\ VBlankSet(ppu)

----------------------------------------------------------------------------
(* Further properties of the CPU on the programs in RAM.                   *)

\* the address of the byte the instruction at the program counter operates on
OperandAddr ==
    resolve_address(PastOpcode, Stepped.addressing, debug, TRUE).address.addr

\* the machine before the step, past the opcode, with the operand byte
\* complemented in RAM
Complemented ==
    Machine(PastOpcode.cpu,
            [BusNow EXCEPT !.cpu_vram =
                 ArrSet(@, ram_mirror(OperandAddr), 255 - OperandValue)],
            FALSE)

\* the CPU the other of ADC / SBC leaves, run from the same state on the
\* complemented operand
Twin ==
    operand(Complemented,
            [Stepped EXCEPT !.name = IF @ = "SBC" THEN "ADC" ELSE "SBC"],
            debug, TRUE).cpu

ArithmeticFlags == {0, 1, 6, 7}

\* C35: SBC with operand M leaves the accumulator and the flags C, Z, V and N
\* that ADC with operand M XOR $FF leaves from the same state, for every A, M
\* and carry-in C.
C35_SbcIsAdcOfComplement ==
    [][ (BusStep("step") /\ Stepped.name \in {"ADC", "SBC"} /\ OperandAddr < \h2000) =>
          /\ cpu'.accumulator = Twin.accumulator
          /\ \A b \in ArithmeticFlags : Bit(cpu'.status, b) = Bit(Twin.status, b) ]_vars

C35_Witness ==
    /\ last.op = "step"
    /\ last.val = \hE5
    /\ last.addr = SbcSite(2, 1, 0) + 3
    /\ debug
    /\ ~panicked
    /\ cpu.accumulator = \h50
    /\ Bit(cpu.status, 0) = 0

\* the byte on top of the stack: the one a pop returns
StackTop == ArrGet(ram, STACK_PAGE + ((cpu.stack_pointer + 1) % 256))

PulledFlags == {0, 1, 2, 3, 6, 7}

\* C36: PLP pops one byte and takes C, Z, I, D, V and N from it; the B and X
\* bits of P stay as they were, whatever bits 4 and 5 of the byte are; S goes
\* up by 1 modulo 256, and nothing else of the CPU or of memory changes.
C36_Plp ==
    [][ (BusStep("step") /\ Stepped.name = "PLP") =>
          /\ ~panicked'
          /\ \A b \in PulledFlags : Bit(cpu'.status, b) = Bit(StackTop, b)
          /\ Bit(cpu'.status, 4) = Bit(cpu.status, 4)
          /\ Bit(cpu'.status, 5) = Bit(cpu.status, 5)
          /\ cpu'.stack_pointer = (cpu.stack_pointer + 1) % 256
          /\ cpu'.accumulator = cpu.accumulator
          /\ cpu'.x_register = cpu.x_register
          /\ cpu'.y_register = cpu.y_register
          /\ cpu'.program_counter = cpu.program_counter + 1
          /\ ram' = ram ]_vars

\* a PLP of $77 (bits 4 and 5 set) into a status with B clear
C36_Witness ==
    /\ last.op = "step"
    /\ last.val = \h28
    /\ cpu.stack_pointer = 0
    /\ cpu.status = \h67
    /\ ~panicked

\* C37: bit 5 (X) of P is 1 in every state of the CPU: CPU::new sets it and
\* no instruction clears it, a PLP or an RTI of a byte with bit 5 clear
\* included.
C37_XAlwaysSet == Bit(cpu.status, 5) = 1

\* an RTI that popped $01, a status byte with bit 5 clear
C37_Witness ==
    /\ last.op = "step"
    /\ last.val = \h40
    /\ cpu.stack_pointer = 0
    /\ cpu.status = \h21
    /\ ~panicked

----------------------------------------------------------------------------
(* Further properties of the cartridge behind the bus.                     *)

\* C39: for every cartridge from_rom constructs, whatever the PRG bank count
\* of its image, a read at an address in $8000-$FFFF returns a byte and does
\* not fault on the PRG index.
C39_PrgReadTotal ==
    [][ (BusStep("read") /\ last'.addr >= \h8000 /\ ~from_rom(image).panic) =>
          ~panicked' ]_vars

----------------------------------------------------------------------------
(* CPU::step and CPU::run_until_brk called in any order on the programs in *)
(* RAM.  While a call of run_until_brk is under way last.op is "call" and  *)
(* last.ret counts the turns its loop has taken; the return keeps the      *)
(* count.                                                                  *)

\* CPU::step, called outside run_until_brk
DirectStep == last.op # "call" /\ CpuStep

\* CPU::run_until_brk is entered
BrkCall ==
    /\ ~panicked
    /\ last.op # "call"
    /\ last' = Op("call", cpu.program_counter, 0, 0)
    /\ UNCHANGED <<debug, image, ram, cart, ppu, cpu, panicked, steps, lastw,
                   shadow, nmi_line>>

\* CPU::run_until_brk, one turn of the loop
CallLoop ==
    /\ last.op = "call"
    /\ ~panicked
    /\ status_lacks_brk(cpu)
    /\ steps < MaxCpuSteps
    /\ ReadNow(cpu.program_counter).ret \in DOMAIN OPCODE_TABLE
    /\ \E st \in StoreChoices : CpuStepTo(step(Machine(cpu, BusNow, FALSE), debug, st))
    /\ last' = Op("call", cpu.program_counter, ReadNow(cpu.program_counter).ret,
                  last.ret + 1)
    /\ steps' = steps + 1
    /\ UNCHANGED <<debug, image, lastw, shadow, nmi_line>>

\* CPU::run_until_brk, the end of the loop
CallReturn ==
    /\ last.op = "call"
    /\ ~panicked
    /\ ~status_lacks_brk(cpu)
    /\ last' = Op("return", cpu.program_counter, 0, last.ret)
    /\ UNCHANGED <<debug, image, ram, cart, ppu, cpu, panicked, steps, lastw,
                   shadow, nmi_line>>

NextCalls == DirectStep \/ BrkCall \/ CallLoop \/ CallReturn

SpecCalls == InitRam /\ [][NextCalls]_vars

BSet(c) == Bit(c.status, 4) = 1

\* an instruction is executed, by step() or by a turn of run_until_brk
Executes == steps' = steps + 1

\* C40: the B flag is clear in a new CPU; an instruction that sets it is a
\* BRK, and a BRK sets it; no instruction, PLP and RTI included, clears it
\* once it is set; and a call of run_until_brk entered with B set (so after
\* any BRK) returns at once, without executing an instruction.
C40_BMonotonic ==
    /\ [](last.op = "none" => ~BSet(cpu))
    /\ [][ Executes =>
             /\ (~BSet(cpu) /\ BSet(cpu')) => Stepped.name = "BRK"
             /\ (Stepped.name = "BRK" /\ ~panicked') => BSet(cpu')
             /\ BSet(cpu) => BSet(cpu') ]_vars
    /\ [][ (last.op = "call" /\ BSet(cpu)) =>
             /\ last'.op = "return"
             /\ last'.ret = last.ret
             /\ cpu' = cpu
             /\ ram' = ram
             /\ steps' = steps ]_vars

\* NOP ; BRK ; PLP by step(), the PLP popping $01, then a call that returned
\* without a turn of its loop
C40_Witness ==
    /\ last.op = "return"
    /\ last.ret = 0
    /\ steps = 3
    /\ cpu.program_counter = FlagSite(3) + 3
    /\ cpu.status = \h31

====
